---- MODULE Spec2Model ----
(***************************************************************************)
(* Model of the array functions of dbms/src/Functions/FunctionsArray.cpp.  *)
(*                                                                         *)
(* A block is a sequence of column slots.  Every function is an action     *)
(* that reads its argument slots and binds a column to its result slot,    *)
(* exactly where the code assigns block.getByPosition(result).column.      *)
(* C++ containers are 0-based, TLA+ sequences 1-based: element j of a      *)
(* C++ buffer is element j+1 of the sequence that models it.               *)
(***************************************************************************)
EXTENDS Integers, Sequences, FiniteSets, TLC

VARIABLES block, call, error, agg

vars == <<block, call, error, agg>>

----------------------------------------------------------------------------
(* Bounds of the explored inputs.                                          *)

MaxRows == 2
MaxElems == 2

(* size_t / ColumnArray::Offset_t arithmetic is unsigned and wraps.  The   *)
(* 64-bit modulus is scaled to TLC's integer range; every length of the    *)
(* model is far below it, so a wrapped value is "huge" exactly as in C++.  *)
SizeModulus == 1048576

ToSize(x) == x % SizeModulus

----------------------------------------------------------------------------
(* Columns, fields.                                                        *)

Uninit == 255

NoError == "none"

EmptySlot == [tag |-> "empty"]

FieldNull == [type |-> "Null", value |-> 0]
FieldUInt64(v) == [type |-> "UInt64", value |-> v]
FieldInt64(v) == [type |-> "Int64", value |-> v]

ColumnVector(d) == [tag |-> "vector", data |-> d]
ColumnNullable(nested, nm) == [tag |-> "nullable", nested |-> nested, null_map |-> nm]
ColumnArray(d, offs) == [tag |-> "array", data |-> d, offsets |-> offs]
ColumnConst(rows, v) == [tag |-> "const", rows |-> rows, value |-> v]
ColumnString(chars, offsets) == [tag |-> "string", chars |-> chars, offsets |-> offsets]
ColumnFixedString(n, chars) == [tag |-> "fixed", n |-> n, chars |-> chars]

isNullable(col) == col.tag = "nullable"

RECURSIVE SeqSum(_)
SeqSum(s) == IF s = <<>> THEN 0 ELSE Head(s) + SeqSum(Tail(s))

RECURSIVE Flatten(_)
Flatten(ss) == IF ss = <<>> THEN <<>> ELSE Head(ss) \o Flatten(Tail(ss))

(* All sequences over S of length at most n. *)
SeqsUpTo(S, n) == UNION {[1..k -> S] : k \in 0..n}

(* offsets[i] is the exclusive end of row i in the flat data. *)
OffsetsOf(rows) == [i \in 1..Len(rows) |-> SeqSum([k \in 1..i |-> Len(rows[k])])]

(* A buffer of n bytes that nothing has written yet. *)
RECURSIVE UninitSeq(_)
UninitSeq(n) == IF n = 0 THEN <<>> ELSE Append(UninitSeq(n - 1), Uninit)

(* offsets[i-1] with offsets[-1] = 0, for a 1-based row number i. *)
PrevOffset(offsets, i) == IF i = 1 THEN 0 ELSE offsets[i - 1]

----------------------------------------------------------------------------
(* ArrayImpl::NullMapBuilder.  A null pointer is a FALSE "has_" flag.  The  *)
(* sink is allocated uninitialised (ColumnUInt8(s)); error records the     *)
(* exception thrown by update.                                             *)

NullMapBuilder ==
    [has_col |-> FALSE, src_nullable_col |-> <<>>,
     has_array |-> FALSE, src_array |-> <<>>,
     sink_null_map |-> <<>>, size |-> 0, index |-> 0, error |-> NoError]

builderBool(b) == b.has_col \/ b.has_array

initSourceCol(b, null_map) == [b EXCEPT !.has_col = TRUE, !.src_nullable_col = null_map]

initSourceArray(b, arr) == [b EXCEPT !.has_array = TRUE, !.src_array = arr]

initSink(b, s) == [b EXCEPT !.sink_null_map = UninitSeq(s), !.size = s]

(* ColumnNullable::isNullAt(from); a read outside the map yields garbage. *)
isNullAt(null_map, from) ==
    IF from + 1 \in DOMAIN null_map THEN null_map[from + 1] ELSE Uninit

updateFrom(b, from) ==
    IF b.index >= b.size
    THEN [b EXCEPT !.error = "LOGICAL_ERROR"]
    ELSE LET is_null ==
                 IF b.has_col
                 THEN isNullAt(b.src_nullable_col, from)
                 ELSE IF from < Len(b.src_array)
                      THEN (IF b.src_array[from + 1].type = "Null" THEN 1 ELSE 0)
                      ELSE 1
         IN [b EXCEPT !.sink_null_map[b.index + 1] = is_null, !.index = b.index + 1]

(* update() without a source position, preceded by the variant that marks *)
(* the row null.                                                           *)
updateMarksNull(b) ==
    IF b.index >= b.size
    THEN [b EXCEPT !.error = "LOGICAL_ERROR"]
    ELSE [b EXCEPT !.sink_null_map[b.index + 1] = 1, !.index = b.index + 1]

update(b) ==
    IF b.index >= b.size
    THEN [b EXCEPT !.error = "LOGICAL_ERROR"]
    ELSE [b EXCEPT !.sink_null_map[b.index + 1] = 0, !.index = b.index + 1]

----------------------------------------------------------------------------
(* ArrayElementNumImpl<T>.  T() is 0.                                      *)

RECURSIVE NumVectorConstLoop(_, _, _, _, _, _, _, _)
NumVectorConstLoop(negative, data, offsets, index, i, current_offset, result, builder) ==
    IF i >= Len(offsets) \/ builder.error # NoError
    THEN [result |-> result, builder |-> builder]
    ELSE LET array_size == offsets[i + 1] - current_offset
         IN IF index < array_size
            THEN LET j == IF ~negative THEN current_offset + index
                                       ELSE offsets[i + 1] - index - 1
                 IN NumVectorConstLoop(negative, data, offsets, index, i + 1, offsets[i + 1],
                        [result EXCEPT ![i + 1] = data[j + 1]],
                        IF builderBool(builder) THEN updateFrom(builder, j) ELSE builder)
            ELSE NumVectorConstLoop(negative, data, offsets, index, i + 1, offsets[i + 1],
                        [result EXCEPT ![i + 1] = 0],
                        IF builderBool(builder) THEN update(builder) ELSE builder)

NumVectorConst(negative, data, offsets, index, builder) ==
    NumVectorConstLoop(negative, data, offsets, index, 0, 0,
                       UninitSeq(Len(offsets)), builder)

RECURSIVE NumVectorLoop(_, _, _, _, _, _, _)
NumVectorLoop(data, offsets, indices, i, current_offset, result, builder) ==
    IF i >= Len(offsets) \/ builder.error # NoError
    THEN [result |-> result, builder |-> builder]
    ELSE LET array_size == offsets[i + 1] - current_offset
             index == indices[i + 1]
         IN IF index > 0 /\ index <= array_size
            THEN LET j == current_offset + index - 1
                 IN NumVectorLoop(data, offsets, indices, i + 1, offsets[i + 1],
                        [result EXCEPT ![i + 1] = data[j + 1]],
                        IF builderBool(builder) THEN updateFrom(builder, j) ELSE builder)
            ELSE IF index < 0 /\ -index <= array_size
            THEN LET j == offsets[i + 1] + index
                 IN NumVectorLoop(data, offsets, indices, i + 1, offsets[i + 1],
                        [result EXCEPT ![i + 1] = data[j + 1]],
                        IF builderBool(builder) THEN updateFrom(builder, j) ELSE builder)
            ELSE NumVectorLoop(data, offsets, indices, i + 1, offsets[i + 1],
                        [result EXCEPT ![i + 1] = 0],
                        IF builderBool(builder) THEN update(builder) ELSE builder)

NumVector(data, offsets, indices, builder) ==
    NumVectorLoop(data, offsets, indices, 0, 0,
                  UninitSeq(Len(offsets)), builder)

----------------------------------------------------------------------------------------------------------------------------------------
(* ArrayElementStringImpl.  acc holds result_data and result_offsets; the  *)
(* row's bytes are appended, so current_result_offset is the length of     *)
(* result_data.                                                            *)

AppendBytes(acc, bytes) == [result_data |-> acc.result_data \o bytes, result_offsets |-> Append(acc.result_offsets, Len(acc.result_data) + Len(bytes))]

StringPos(string_offsets, current_offset, adjusted_index) == IF current_offset = 0 /\ adjusted_index = 0 THEN 0 ELSE string_offsets[current_offset + adjusted_index]

CopyString(acc, data, string_offsets, current_offset, adjusted_index) ==
    AppendBytes(acc, SubSeq(data,
                            StringPos(string_offsets, current_offset, adjusted_index) + 1,
                            string_offsets[current_offset + adjusted_index + 1]))

EmptyString(acc) == AppendBytes(acc, <<0>>)

Updated(builder, j) == IF builderBool(builder) THEN updateFrom(builder, j) ELSE builder

UpdatedNoSource(builder) == IF builderBool(builder) THEN update(builder) ELSE builder

(* The flat index the constant-index loop hands to the builder. *)
StringVectorConstBuilderIndex(current_offset, adjusted_index) ==
    IF current_offset = 0 /\ adjusted_index = 0 THEN 0
    ELSE current_offset + adjusted_index

StringVectorConstAdjusted(negative, index, array_size) == IF ~negative THEN index ELSE array_size - index - 1

StringVectorConstRow(negative, data, string_offsets, index, current_offset, array_size, acc, builder) ==
    IF index < array_size
    THEN [result |-> CopyString(acc, data, string_offsets, current_offset,
                                StringVectorConstAdjusted(negative, index, array_size)),
          builder |-> Updated(builder, StringVectorConstBuilderIndex(current_offset,
                                  StringVectorConstAdjusted(negative, index, array_size)))]
    ELSE [result |-> EmptyString(acc), builder |-> UpdatedNoSource(builder)]

RECURSIVE StringVectorConstLoop(_, _, _, _, _, _, _, _)
StringVectorConstLoop(negative, data, offsets, string_offsets, index, i, current_offset, st) ==
    IF i >= Len(offsets) \/ st.builder.error # NoError
    THEN st
    ELSE StringVectorConstLoop(negative, data, offsets, string_offsets, index, i + 1,
             offsets[i + 1],
             StringVectorConstRow(negative, data, string_offsets, index, current_offset,
                                  offsets[i + 1] - current_offset, st.result, st.builder))

StringVectorConst(negative, data, offsets, string_offsets, index, builder) ==
    StringVectorConstLoop(negative, data, offsets, string_offsets, index, 0, 0,
        [result |-> [result_data |-> <<>>, result_offsets |-> <<>>], builder |-> builder])

(* The flat index the per-row loop hands to the builder for the string at  *)
(* adjusted_index of the row that starts at current_offset.                *)
StringVectorBuilderIndex(current_offset, adjusted_index) ==
    IF current_offset = 0 /\ adjusted_index = 0 THEN 0
    ELSE current_offset + adjusted_index - 1

(* adjusted_index: the index in the array from zero; array_size means that *)
(* no element should be taken.                                             *)
StringVectorAdjusted(index, array_size) ==
    IF index > 0 /\ index <= array_size THEN index - 1
    ELSE IF index < 0 /\ -index <= array_size THEN array_size + index
    ELSE array_size

StringVectorRow(data, string_offsets, adjusted_index, current_offset, array_size, acc, builder) ==
    IF adjusted_index < array_size
    THEN [result |-> CopyString(acc, data, string_offsets, current_offset, adjusted_index),
          builder |-> Updated(builder, StringVectorBuilderIndex(current_offset, adjusted_index))]
    ELSE [result |-> EmptyString(acc), builder |-> UpdatedNoSource(builder)]

RECURSIVE StringVectorLoop(_, _, _, _, _, _, _)
StringVectorLoop(data, offsets, string_offsets, indices, i, current_offset, st) ==
    IF i >= Len(offsets) \/ st.builder.error # NoError
    THEN st
    ELSE StringVectorLoop(data, offsets, string_offsets, indices, i + 1, offsets[i + 1],
             StringVectorRow(data, string_offsets,
                             StringVectorAdjusted(indices[i + 1], offsets[i + 1] - current_offset),
                             current_offset, offsets[i + 1] - current_offset,
                             st.result, st.builder))

StringVector(data, offsets, string_offsets, indices, builder) ==
    StringVectorLoop(data, offsets, string_offsets, indices, 0, 0,
        [result |-> [result_data |-> <<>>, result_offsets |-> <<>>], builder |-> builder])

----------------------------------------------------------------------------
(* ArrayElementGenericImpl, over IColumn::insertFrom and insertDefault: a  *)
(* fixed-string column holds n bytes per value, any other column one       *)
(* value per position of data.                                             *)

insertFrom(result, src, j) ==
    IF result.tag = "fixed"
    THEN [result EXCEPT !.chars = @ \o SubSeq(src.chars, j * src.n + 1, (j + 1) * src.n)]
    ELSE [result EXCEPT !.data = Append(@, src.data[j + 1])]

insertDefault(result) ==
    IF result.tag = "fixed"
    THEN [result EXCEPT !.chars = @ \o [k \in 1..result.n |-> 0]]
    ELSE [result EXCEPT !.data = Append(@, 0)]

GenericTake(data, j, result, builder) == [result |-> insertFrom(result, data, j), builder |-> Updated(builder, j)]

GenericMiss(result, builder) == [result |-> insertDefault(result), builder |-> UpdatedNoSource(builder)]

GenericVectorConstRow(negative, data, index, current_offset, next_offset, result, builder) ==
    IF index < next_offset - current_offset
    THEN GenericTake(data, IF ~negative THEN current_offset + index ELSE next_offset - index - 1,
                     result, builder)
    ELSE GenericMiss(result, builder)

RECURSIVE GenericVectorConstLoop(_, _, _, _, _, _, _)
GenericVectorConstLoop(negative, data, offsets, index, i, current_offset, st) ==
    IF i >= Len(offsets) \/ st.builder.error # NoError
    THEN st
    ELSE GenericVectorConstLoop(negative, data, offsets, index, i + 1, offsets[i + 1],
             GenericVectorConstRow(negative, data, index, current_offset, offsets[i + 1],
                                   st.result, st.builder))

GenericVectorRow(data, index, current_offset, next_offset, result, builder) ==
    IF index > 0 /\ index <= next_offset - current_offset
    THEN GenericTake(data, current_offset + index - 1, result, builder)
    ELSE IF index < 0 /\ -index <= next_offset - current_offset
    THEN GenericTake(data, next_offset + index, result, builder)
    ELSE GenericMiss(result, builder)

RECURSIVE GenericVectorLoop(_, _, _, _, _, _)
GenericVectorLoop(data, offsets, indices, i, current_offset, st) ==
    IF i >= Len(offsets) \/ st.builder.error # NoError
    THEN st
    ELSE GenericVectorLoop(data, offsets, indices, i + 1, offsets[i + 1],
             GenericVectorRow(data, indices[i + 1], current_offset, offsets[i + 1],
                              st.result, st.builder))

(* IColumn::cloneEmpty() of the nested column of an array. *)
cloneEmptyNested(col) ==
    IF col.tag = "fixed" THEN [col EXCEPT !.chars = <<>>] ELSE [col EXCEPT !.data = <<>>]

----------------
(* FunctionArrayElement.  A block is a sequence of columns; arguments and  *)
(* result are 1-based slot numbers.  Every execute* returns                 *)
(* [handled, block, builder, error]: handled is the C++ bool result, error  *)
(* the code of the exception that left the function.                        *)

Outcome(h, blk, b, e) == [handled |-> h, block |-> blk, builder |-> b, error |-> e]

NotHandled(blk, b) == Outcome(FALSE, blk, b, NoError)

(* IColumn::size(). *)
Rows(col) ==
    CASE col.tag = "array" -> Len(col.offsets)
      [] col.tag = "const" -> col.rows
      [] col.tag = "vector" -> Len(col.data)
      [] col.tag = "nullable" -> Len(col.null_map)
      [] col.tag = "string" -> Len(col.offsets)
      [] col.tag = "fixed" -> Len(col.chars) \div col.n
      [] col.tag = "generic" -> Len(col.data)
      [] OTHER -> 0

(* Block::rows(): the size of the block's first bound column. *)
BlockRows(blk) == Rows(blk[1])

(* IDataType::getDefault() of the result's numeric type. *)
TypeDefault == FieldUInt64(0)

(* IColumn::insert(Field) into a numeric column: the stored number.  A Null *)
(* field carries no number; what is read from it is indeterminate.          *)
FieldToValue(f) == IF f.type = "Null" THEN Uninit ELSE f.value

executeNumberConst(blk, arguments, result, index, builder) ==
    LET col_array == blk[arguments[1]]
    IN IF col_array.tag # "array" THEN NotHandled(blk, builder)
       ELSE IF col_array.data.tag # "vector" THEN NotHandled(blk, builder)
       ELSE LET r == IF index.type = "UInt64"
                     THEN NumVectorConst(FALSE, col_array.data.data, col_array.offsets,
                                         ToSize(index.value - 1), builder)
                     ELSE NumVectorConst(TRUE, col_array.data.data, col_array.offsets,
                                         ToSize(-index.value - 1), builder)
            IN Outcome(TRUE, [blk EXCEPT ![result] = ColumnVector(r.result)],
                       r.builder, r.builder.error)

executeNumber(blk, arguments, result, indices, builder) ==
    LET col_array == blk[arguments[1]]
    IN IF col_array.tag # "array" THEN NotHandled(blk, builder)
       ELSE IF col_array.data.tag # "vector" THEN NotHandled(blk, builder)
       ELSE LET r == NumVector(col_array.data.data, col_array.offsets, indices, builder)
            IN Outcome(TRUE, [blk EXCEPT ![result] = ColumnVector(r.result)],
                       r.builder, r.builder.error)

(* The index handed to vectorConst by the execute*Const functions. *)
ConstIndex(index) == IF index.type = "UInt64" THEN ToSize(index.value - 1) ELSE ToSize(-index.value - 1)

StringOutcome(blk, result, r) == Outcome(TRUE, [blk EXCEPT ![result] = ColumnString(r.result.result_data, r.result.result_offsets)], r.builder, r.builder.error)

GenericOutcome(blk, result, r) == Outcome(TRUE, [blk EXCEPT ![result] = r.result], r.builder, r.builder.error)

IsArrayOf(col_array, tag) == col_array.tag = "array" /\ col_array.data.tag = tag

executeStringConstOn(blk, col_array, result, index, builder) ==
    IF ~IsArrayOf(col_array, "string") THEN NotHandled(blk, builder)
    ELSE StringOutcome(blk, result,
             StringVectorConst(index.type # "UInt64", col_array.data.chars, col_array.offsets,
                               col_array.data.offsets, ConstIndex(index), builder))

executeStringConst(blk, arguments, result, index, builder) == executeStringConstOn(blk, blk[arguments[1]], result, index, builder)

executeStringOn(blk, col_array, result, indices, builder) ==
    IF ~IsArrayOf(col_array, "string") THEN NotHandled(blk, builder)
    ELSE StringOutcome(blk, result,
             StringVector(col_array.data.chars, col_array.offsets, col_array.data.offsets,
                          indices, builder))

executeString(blk, arguments, result, indices, builder) == executeStringOn(blk, blk[arguments[1]], result, indices, builder)

executeGenericConstOn(blk, col_array, result, index, builder) ==
    IF col_array.tag # "array" THEN NotHandled(blk, builder)
    ELSE GenericOutcome(blk, result,
             GenericVectorConstLoop(index.type # "UInt64", col_array.data, col_array.offsets,
                 ConstIndex(index), 0, 0,
                 [result |-> cloneEmptyNested(col_array.data), builder |-> builder]))

executeGenericConst(blk, arguments, result, index, builder) == executeGenericConstOn(blk, blk[arguments[1]], result, index, builder)

executeGenericOn(blk, col_array, result, indices, builder) ==
    IF col_array.tag # "array" THEN NotHandled(blk, builder)
    ELSE GenericOutcome(blk, result,
             GenericVectorLoop(col_array.data, col_array.offsets, indices, 0, 0,
                 [result |-> cloneEmptyNested(col_array.data), builder |-> builder]))

executeGeneric(blk, arguments, result, indices, builder) == executeGenericOn(blk, blk[arguments[1]], result, indices, builder)

(* "a || b" over the results of two execute* functions. *)
OrElse(first, second) == IF first.handled THEN first ELSE second

executeConstConst(blk, arguments, result, index, builder) ==
    LET col_array == blk[arguments[1]]
    IN IF col_array.tag # "const" THEN NotHandled(blk, builder)
       ELSE LET array == col_array.value
                array_size == Len(array)
                real_index == IF index.type = "UInt64"
                              THEN ToSize(index.value - 1)
                              ELSE ToSize(array_size + index.value)
                value0 == IF real_index < array_size THEN array[real_index + 1] ELSE FieldNull
                value == IF value0.type = "Null" THEN TypeDefault ELSE value0
                b == IF builderBool(builder) THEN updateFrom(builder, real_index) ELSE builder
            IN Outcome(TRUE, [blk EXCEPT ![result] = ColumnConst(BlockRows(blk), value)],
                       b, b.error)

RECURSIVE executeConstLoop(_, _, _, _, _, _)
executeConstLoop(array, size, indices, i, column, builder) ==
    IF i >= size \/ builder.error # NoError
    THEN [column |-> column, builder |-> builder]
    ELSE LET array_size == Len(array)
             index == indices[i + 1]
         IN IF index > 0 /\ index <= array_size
            THEN LET j == index - 1
                 IN executeConstLoop(array, size, indices, i + 1,
                        Append(column, FieldToValue(array[j + 1])),
                        IF builderBool(builder) THEN updateFrom(builder, j) ELSE builder)
            ELSE IF index < 0 /\ -index <= array_size
            THEN LET j == array_size + index
                 IN executeConstLoop(array, size, indices, i + 1,
                        Append(column, FieldToValue(array[j + 1])),
                        IF builderBool(builder) THEN updateFrom(builder, j) ELSE builder)
            ELSE executeConstLoop(array, size, indices, i + 1,
                        Append(column, 0),
                        IF builderBool(builder) THEN update(builder) ELSE builder)

executeConst(blk, arguments, result, indices, builder) ==
    LET col_array == blk[arguments[1]]
    IN IF col_array.tag # "const" THEN NotHandled(blk, builder)
       ELSE LET r == executeConstLoop(col_array.value, col_array.rows, indices, 0, <<>>, builder)
            IN Outcome(TRUE, [blk EXCEPT ![result] = ColumnVector(r.column)],
                       r.builder, r.builder.error)

(* executeArgument<IndexType>: the index column is a ColumnVector of an     *)
(* integral type; the first execute* that accepts the array column runs.    *)
executeArgument(blk, arguments, result, builder) ==
    LET index == blk[arguments[2]]
    IN IF index.tag # "vector" THEN NotHandled(blk, builder)
       ELSE LET b == IF builderBool(builder) THEN initSink(builder, Len(index.data)) ELSE builder
                n == executeNumber(blk, arguments, result, index.data, b)
                c == executeConst(blk, arguments, result, index.data, b)
            IN IF n.handled THEN n
               ELSE IF c.handled THEN c
               ELSE OrElse(executeString(blk, arguments, result, index.data, b),
                           OrElse(executeGeneric(blk, arguments, result, index.data, b),
                                  Outcome(FALSE, blk, b, "ILLEGAL_COLUMN")))

(* Field::operator== as used in "index == UInt64(0)": the right-hand side   *)
(* is the field built from UInt64(0).                                       *)
FieldEquals(f, g) == f = g

perform(blk, arguments, result, builder) ==
    IF blk[arguments[2]].tag # "const"
    THEN LET a == executeArgument(blk, arguments, result, builder)
         IN IF a.handled \/ a.error # NoError THEN a
            ELSE Outcome(FALSE, blk, builder, "ILLEGAL_COLUMN")
    ELSE LET index == blk[arguments[2]].value
             b == IF builderBool(builder) THEN initSink(builder, BlockRows(blk)) ELSE builder
         IN IF FieldEquals(index, FieldUInt64(0))
            THEN Outcome(FALSE, blk, b, "ZERO_ARRAY_OR_TUPLE_INDEX")
            ELSE LET n == executeNumberConst(blk, arguments, result, index, b)
                     c == executeConstConst(blk, arguments, result, index, b)
                 IN IF n.handled THEN n
                    ELSE IF c.handled THEN c
                    ELSE OrElse(executeStringConst(blk, arguments, result, index, b),
                                OrElse(executeGenericConst(blk, arguments, result, index, b),
                                       Outcome(FALSE, blk, b, "ILLEGAL_COLUMN")))

AnyNull(arr) == \E k \in DOMAIN arr : arr[k].type = "Null"

(* FunctionArrayElement::executeImpl: returns [block, error]. *)
ArrayElementExecuteImpl(blk, arguments, result) ==
    LET col == blk[arguments[1]]
        is_nullable == IF col.tag = "array" THEN isNullable(col.data)
                       ELSE IF col.tag = "const" THEN AnyNull(col.value)
                       ELSE FALSE
    IN IF col.tag \notin {"array", "const"}
       THEN [block |-> blk, error |-> "ILLEGAL_COLUMN"]
       ELSE IF ~is_nullable
       THEN LET o == perform(blk, arguments, result, NullMapBuilder)
            IN [block |-> o.block, error |-> o.error]
       ELSE LET source_block ==
                    IF col.tag = "array"
                    THEN <<ColumnArray(col.data.nested, col.offsets), blk[arguments[2]], EmptySlot>>
                    ELSE <<col, blk[arguments[2]], EmptySlot>>
                builder == IF col.tag = "array"
                           THEN initSourceCol(NullMapBuilder, col.data.null_map)
                           ELSE initSourceArray(NullMapBuilder, col.value)
                o == perform(source_block, <<1, 2>>, 3, builder)
            IN IF o.error # NoError
               THEN [block |-> blk, error |-> o.error]
               ELSE [block |-> [blk EXCEPT ![result] =
                                   ColumnNullable(o.block[3], o.builder.sink_null_map)],
                     error |-> NoError]

----------------------------------------------------------------------------
(* Indeterminate bytes: every Uninit left in a result is some byte; the    *)
(* outcomes 0 and 1 stand for "reads as not null" and "reads as null".     *)

RECURSIVE ResolveSeq(_)
ResolveSeq(s) ==
    IF s = <<>> THEN {<<>>}
    ELSE {<<h>> \o t : h \in (IF Head(s) = Uninit THEN {0, 1} ELSE {Head(s)}),
                       t \in ResolveSeq(Tail(s))}

RECURSIVE ResolveColumn(_)
ResolveColumn(col) ==
    CASE col.tag = "vector" -> {ColumnVector(d) : d \in ResolveSeq(col.data)}
      [] col.tag = "nullable" ->
            {ColumnNullable(n, m) : n \in ResolveColumn(col.nested), m \in ResolveSeq(col.null_map)}
      [] col.tag = "array" -> {ColumnArray(d, col.offsets) : d \in ResolveColumn(col.data)}
      [] col.tag = "string" ->
            {[col EXCEPT !.chars = c, !.offsets = o] :
                 c \in ResolveSeq(col.chars), o \in ResolveSeq(col.offsets)}
      [] col.tag = "fixed" -> {[col EXCEPT !.chars = c] : c \in ResolveSeq(col.chars)}
      [] OTHER -> {col}

----------------------------------------------------------------------------
(* Inputs.                                                                 *)

NoCall == [fn |-> "none", arguments |-> <<>>, result |-> 0]

NoAgg == [pc |-> "idle"]

IsNonDecreasing(o) == \A i \in 1..(Len(o) - 1) : o[i] <= o[i + 1]

(* Offsets of at most MaxRows rows holding at most MaxElems elements. *)
OffsetsSet(maxRows, maxElems) ==
    {o \in SeqsUpTo(0..maxElems, maxRows) : IsNonDecreasing(o)}

DataSize(o) == IF o = <<>> THEN 0 ELSE o[Len(o)]

NumValues == {1, 2}

(* Array(T) columns over numeric T. *)
PlainArrays(maxRows, maxElems) ==
    UNION {{ColumnArray(ColumnVector(d), o) : d \in [1..DataSize(o) -> NumValues]}
           : o \in OffsetsSet(maxRows, maxElems)}

(* Array(Nullable(T)) columns: an element is the number 1 or NULL. *)
NullableElems == {<<1, 0>>, <<0, 1>>}

NullableArrays(maxRows, maxElems) ==
    UNION {{ColumnArray(ColumnNullable(ColumnVector([k \in 1..DataSize(o) |-> e[k][1]]),
                                       [k \in 1..DataSize(o) |-> e[k][2]]), o)
            : e \in [1..DataSize(o) -> NullableElems]}
           : o \in OffsetsSet(maxRows, maxElems)}

(* Constant arrays: one Array field broadcast over rows. *)
ConstFields == {FieldUInt64(1), FieldUInt64(2), FieldNull}

ConstArrays(maxRows, maxElems) ==
    {ColumnConst(r, a) : r \in 0..maxRows, a \in SeqsUpTo(ConstFields, maxElems)}

IndexValues == (0 - (MaxElems + 1))..(MaxElems + 1)

(* A constant index column: ColumnVector<UIntN>::operator[] yields a UInt64 *)
(* field, ColumnVector<IntN>::operator[] an Int64 field of either sign.     *)
ConstIndexFields ==
    {FieldUInt64(v) : v \in 0..(MaxElems + 1)} \cup {FieldInt64(v) : v \in IndexValues}

IndexColumns(rows) ==
    {ColumnVector(d) : d \in [1..rows -> IndexValues]}
    \cup {ColumnConst(rows, f) : f \in ConstIndexFields}

ElementArrays ==
    PlainArrays(MaxRows, MaxElems) \cup NullableArrays(MaxRows, MaxElems)
    \cup ConstArrays(MaxRows, MaxElems)

(* ColumnConst::convertToFullColumn() of a constant array: the array in    *)
(* every row; the elements are nullable if one of them is NULL.            *)
convertToFullColumn(col) ==
    LET values == col.value
        rows == [r \in 1..col.rows |-> values]
        flat == Flatten(rows)
        nested == ColumnVector([k \in 1..Len(flat) |-> IF flat[k] = FieldNull THEN 0 ELSE flat[k].value])
    IN ColumnArray(IF \E k \in 1..Len(values) : values[k] = FieldNull
                   THEN ColumnNullable(nested, [k \in 1..Len(flat) |-> IF flat[k] = FieldNull THEN 1 ELSE 0])
                   ELSE nested,
                   OffsetsOf(rows))

----------------------------------------------------------------------------
(* Specification of arrayElement: block = <<array, index, result, R2>>;    *)
(* R2 takes the result of the same access over a constant array            *)
(* materialised to one row per row of the block.                           *)

InitElement ==
    /\ \E a \in ElementArrays : \E ix \in IndexColumns(Rows(a)) :
           block = <<a, ix, EmptySlot, EmptySlot>>
    /\ call = NoCall
    /\ error = NoError
    /\ agg = NoAgg

ArrayElement ==
    /\ call = NoCall
    /\ LET o == ArrayElementExecuteImpl(block, <<1, 2>>, 3)
       IN /\ \E r \in ResolveColumn(o.block[3]) : block' = [o.block EXCEPT ![3] = r]
          /\ error' = o.error
    /\ call' = [fn |-> "arrayElement", arguments |-> <<1, 2>>, result |-> 3]
    /\ UNCHANGED agg

(* arrayElement over the full column of a constant array, with the same   *)
(* index column.                                                           *)
ArrayElementMaterialized ==
    /\ call.fn = "arrayElement" /\ call.result = 3 /\ error = NoError
    /\ block[1].tag = "const"
    /\ LET full == [block EXCEPT ![1] = convertToFullColumn(block[1])]
           o == ArrayElementExecuteImpl(full, <<1, 2>>, 4)
       IN /\ \E r \in ResolveColumn(o.block[4]) : block' = [block EXCEPT ![4] = r]
          /\ error' = o.error
    /\ call' = [fn |-> "arrayElement", arguments |-> <<1, 2>>, result |-> 4]
    /\ UNCHANGED agg

NextElement == ArrayElement \/ ArrayElementMaterialized

SpecElement == InitElement /\ [][NextElement]_vars

----------------------------------------------------------------------------
(* Reading a block the way the claims speak about it.                      *)

(* Length of row r (1-based) of an array column. *)
RowLen(col, r) ==
    IF col.tag = "const" THEN Len(col.value) ELSE col.offsets[r] - PrevOffset(col.offsets, r)

ArrayIsNullable(col) ==
    IF col.tag = "const" THEN AnyNull(col.value) ELSE isNullable(col.data)

(* The index of row r, as a number. *)
IndexAt(col, r) == IF col.tag = "const" THEN col.value.value ELSE col.data[r]

RECURSIVE ValueAt(_, _)
ValueAt(col, r) ==
    CASE col.tag = "vector" -> col.data[r]
      [] col.tag = "const" -> col.value.value
      [] col.tag = "nullable" -> ValueAt(col.nested, r)

NullAt(col, r) == IF col.tag = "nullable" THEN col.null_map[r] ELSE 0

Abs(x) == IF x < 0 THEN 0 - x ELSE x

ElementDone == call.fn = "arrayElement"

(* C1: an index beyond the row's length, in either direction, yields the   *)
(* default value and, for a nullable element type, a null flag of 1.       *)
C1_OutOfBoundsDefaultAndNull ==
    (ElementDone /\ error = NoError) =>
        \A r \in 1..Rows(block[1]) :
            LET k == IndexAt(block[2], r)
            IN (k # 0 /\ Abs(k) > RowLen(block[1], r)) =>
                   /\ ValueAt(block[3], r) = 0
                   /\ ArrayIsNullable(block[1]) => NullAt(block[3], r) = 1

(* C4: a constant index of value 0, of any integral type, fails with       *)
(* ZeroIndex and binds no result.                                          *)
C4_ZeroIndexFails ==
    (ElementDone /\ block[2].tag = "const" /\ block[2].value.value = 0) =>
        /\ error = "ZERO_ARRAY_OR_TUPLE_INDEX"
        /\ block[3] = EmptySlot

(* The element a result column holds at row r: its null flag and, when not *)
(* null, its value.                                                        *)
ElemAt(col, r) == <<NullAt(col, r), IF NullAt(col, r) = 1 THEN 0 ELSE ValueAt(col, r)>>

(* The index column with the index of row r replaced by m; a constant      *)
(* index is replaced as a whole, by a constant of a signed type.           *)
WithIndex(col, r, m) ==
    IF col.tag = "const" THEN ColumnConst(col.rows, FieldInt64(m))
    ELSE ColumnVector([col.data EXCEPT ![r] = m])

(* Every outcome of arrayElement on array a with index column ix holds     *)
(* element e at row r.                                                     *)
ElementAccessYields(a, ix, r, e) ==
    LET o == ArrayElementExecuteImpl(<<a, ix, EmptySlot>>, <<1, 2>>, 3)
    IN /\ o.error = NoError
       /\ \A c \in ResolveColumn(o.block[3]) : ElemAt(c, r) = e

(* C5: for 1 <= k <= len, index k and index -(len-k+1) return the same     *)
(* element and null flag, with a constant and with a per-row index.        *)
C5_IndexSymmetry ==
    (ElementDone /\ error = NoError) =>
        \A r \in 1..Rows(block[1]) :
            LET k == IndexAt(block[2], r)
                len == RowLen(block[1], r)
            IN (1 <= k /\ k <= len) =>
                   ElementAccessYields(block[1], WithIndex(block[2], r, 0 - (len - k + 1)),
                                       r, ElemAt(block[3], r))

----------------------------------------------------------------------------
(* FunctionArrayReverse.                                                   *)


(* A buffer under construction: corrupt records a write outside it. *)
Buffer(d) == [data |-> d, corrupt |-> FALSE]

(* buf[j] for a 0-based j; a read outside the buffer yields garbage. *)
Get(s, j) == IF j + 1 \in DOMAIN s THEN s[j + 1] ELSE Uninit

(* buf[j] = v for a 0-based j. *)
Put(buf, j, v) ==
    IF j + 1 \in DOMAIN buf.data
    THEN [buf EXCEPT !.data[j + 1] = v]
    ELSE [buf EXCEPT !.corrupt = TRUE]

(* memcpy(&dst[dpos], &src[spos], n) *)
RECURSIVE Memcpy(_, _, _, _, _)
Memcpy(dst, dpos, src, spos, n) ==
    IF n <= 0 THEN dst
    ELSE Memcpy(Put(dst, dpos, Get(src, spos)), dpos + 1, src, spos + 1, n - 1)

(* while (src < src_end) { *dst = *src; ++src; --dst; } *)
RECURSIVE ReverseCopy(_, _, _, _, _)
ReverseCopy(src_data, res, src, src_end, dst) ==
    IF src >= src_end THEN res
    ELSE ReverseCopy(src_data, Put(res, dst, Get(src_data, src)), src + 1, src_end, dst - 1)

(* src_offsets[i]; junk[i] is what the memory behind the offsets holds. *)
OffsetRead(src_offsets, junk, i) ==
    IF i + 1 \in DOMAIN src_offsets THEN src_offsets[i + 1] ELSE junk[i + 1]

(* The loop of do_reverse and of the two null map loops written out in    *)
(* executeFixedString and executeString; size is the loop's bound.        *)
RECURSIVE do_reverse_loop(_, _, _, _, _, _, _)
do_reverse_loop(src_data, src_offsets, junk, size, i, src_prev_offset, res) ==
    IF i >= size THEN res
    ELSE LET off == OffsetRead(src_offsets, junk, i)
         IN IF src_prev_offset = off
            THEN do_reverse_loop(src_data, src_offsets, junk, size, i + 1, src_prev_offset, res)
            ELSE do_reverse_loop(src_data, src_offsets, junk, size, i + 1, off,
                     ReverseCopy(src_data, res, src_prev_offset, off, off - 1))

do_reverse(src_data, src_offsets, res_data) ==
    do_reverse_loop(src_data, src_offsets, <<>>, Len(src_offsets), 0, 0, Buffer(res_data))

(* executeNumber: [data, null_map, corrupt] of the result. *)
ReverseNumber(src_data, src_offsets, nullable, src_null_map) ==
    LET d == do_reverse(src_data, src_offsets, UninitSeq(Len(src_data)))
        m == IF nullable
             THEN do_reverse(src_null_map, src_offsets, UninitSeq(Len(src_data)))
             ELSE Buffer(<<>>)
    IN [data |-> d.data, null_map |-> m.data, corrupt |-> d.corrupt \/ m.corrupt]

(* executeFixedString: elements are n bytes wide. *)
RECURSIVE FixedReverseCopy(_, _, _, _, _, _)
FixedReverseCopy(src_data, res, n, src, src_end, dst) ==
    IF src >= src_end THEN res
    ELSE FixedReverseCopy(src_data, Memcpy(res, dst, src_data, src, n), n,
                          src + n, src_end, dst - n)

RECURSIVE FixedReverseLoop(_, _, _, _, _, _)
FixedReverseLoop(src_data, src_offsets, n, i, src_prev_offset, res) ==
    IF i >= Len(src_offsets) THEN res
    ELSE IF src_prev_offset * n = src_offsets[i + 1] * n
    THEN FixedReverseLoop(src_data, src_offsets, n, i + 1, src_prev_offset, res)
    ELSE FixedReverseLoop(src_data, src_offsets, n, i + 1, src_offsets[i + 1],
             FixedReverseCopy(src_data, res, n, src_prev_offset * n, src_offsets[i + 1] * n,
                              src_offsets[i + 1] * n - n))

ReverseFixedString(src_data, n, src_offsets, nullable, src_null_map) ==
    LET d == FixedReverseLoop(src_data, src_offsets, n, 0, 0, Buffer(UninitSeq(Len(src_data))))
        m == IF nullable
             THEN do_reverse_loop(src_null_map, src_offsets, <<>>, Len(src_offsets), 0, 0,
                                  Buffer(UninitSeq(Len(src_null_map))))
             ELSE Buffer(<<>>)
    IN [data |-> d.data, null_map |-> m.data, corrupt |-> d.corrupt \/ m.corrupt]

(* executeString, the loop over the strings of one row. *)
RECURSIVE StringRowLoop(_, _, _, _, _, _)
StringRowLoop(src_data, src_string_offsets, src_array_prev_offset, array_size, j, acc) ==
    IF j >= array_size THEN acc
    ELSE LET j_reversed == array_size - j - 1
             src_pos == IF src_array_prev_offset + j_reversed = 0 THEN 0
                        ELSE src_string_offsets[src_array_prev_offset + j_reversed]
             string_size == src_string_offsets[src_array_prev_offset + j_reversed + 1] - src_pos
             pos == acc.res_string_prev_offset + string_size
         IN StringRowLoop(src_data, src_string_offsets, src_array_prev_offset, array_size, j + 1,
                [res_data |-> Memcpy(acc.res_data, acc.res_string_prev_offset,
                                     src_data, src_pos, string_size),
                 res_string_prev_offset |-> pos,
                 res_string_offsets |-> Put(acc.res_string_offsets, src_array_prev_offset + j, pos)])

RECURSIVE StringReverseLoop(_, _, _, _, _, _)
StringReverseLoop(src_data, src_string_offsets, src_array_offsets, i, src_array_prev_offset, acc) ==
    IF i >= Len(src_array_offsets) THEN acc
    ELSE StringReverseLoop(src_data, src_string_offsets, src_array_offsets, i + 1,
             src_array_offsets[i + 1],
             IF src_array_offsets[i + 1] # src_array_prev_offset
             THEN StringRowLoop(src_data, src_string_offsets, src_array_prev_offset,
                                src_array_offsets[i + 1] - src_array_prev_offset, 0, acc)
             ELSE acc)

(* The null map loop of executeString runs to src_string_offsets.size(),   *)
(* the number of strings, and reads src_array_offsets[i] for each i below  *)
(* it; junk is what it reads behind the last row's offset.                 *)
StringNullMapLoopBound(src_string_offsets, src_array_offsets) == Len(src_string_offsets)

ReverseString(src_data, src_string_offsets, src_array_offsets, nullable, src_null_map, junk) ==
    LET d == StringReverseLoop(src_data, src_string_offsets, src_array_offsets, 0, 0,
                 [res_data |-> Buffer(UninitSeq(Len(src_data))),
                  res_string_prev_offset |-> 0,
                  res_string_offsets |-> Buffer(UninitSeq(Len(src_string_offsets)))])
        m == IF nullable
             THEN do_reverse_loop(src_null_map, src_array_offsets, junk,
                                  StringNullMapLoopBound(src_string_offsets, src_array_offsets),
                                  0, 0, Buffer(UninitSeq(Len(src_string_offsets))))
             ELSE Buffer(<<>>)
    IN [chars |-> d.res_data.data, offsets |-> d.res_string_offsets.data, null_map |-> m.data,
        corrupt |-> d.res_data.corrupt \/ d.res_string_offsets.corrupt \/ m.corrupt]

ReverseSeq(arr) == [i \in 1..Len(arr) |-> arr[Len(arr) - i + 1]]

(* FunctionArrayReverse::executeConst *)
ReverseExecuteConst(blk, arguments, result) ==
    LET const_array == blk[arguments[1]]
    IN IF const_array.tag # "const" THEN [handled |-> FALSE, block |-> blk]
       ELSE [handled |-> TRUE,
             block |-> [blk EXCEPT ![result] =
                           ColumnConst(BlockRows(blk), ReverseSeq(const_array.value))]]

(* IColumn::cloneEmpty() *)
RECURSIVE cloneEmpty(_)
cloneEmpty(col) ==
    CASE col.tag = "vector" -> ColumnVector(<<>>)
      [] col.tag = "string" -> ColumnString(<<>>, <<>>)
      [] col.tag = "fixed" -> ColumnFixedString(col.n, <<>>)
      [] col.tag = "nullable" -> ColumnNullable(cloneEmpty(col.nested), <<>>)
      [] col.tag = "array" -> ColumnArray(cloneEmpty(col.data), <<>>)
      [] OTHER -> col

(* FunctionArrayReverse::executeImpl: returns [block, error].  The result  *)
(* slot is bound to the empty clone, sharing the offsets, before the       *)
(* element representation is looked at.                                    *)
ArrayReverseExecuteImpl(blk, arguments, result, junk) ==
    LET c == ReverseExecuteConst(blk, arguments, result)
        array == blk[arguments[1]]
    IN IF c.handled THEN [block |-> c.block, error |-> NoError]
       ELSE IF array.tag # "array" THEN [block |-> blk, error |-> "ILLEGAL_COLUMN"]
       ELSE LET src_data == array.data
                offsets == array.offsets
                nullable == isNullable(src_data)
                inner_col == IF nullable THEN src_data.nested ELSE src_data
                src_null_map == IF nullable THEN src_data.null_map ELSE <<>>
                wrap(inner, nm) == ColumnArray(IF nullable THEN ColumnNullable(inner, nm)
                                                           ELSE inner, offsets)
                bound == [blk EXCEPT ![result] = ColumnArray(cloneEmpty(src_data), offsets)]
                finish(r, inner) ==
                    [block |-> [blk EXCEPT ![result] = wrap(inner, r.null_map)],
                     error |-> IF r.corrupt THEN "MEMORY_CORRUPTION" ELSE NoError]
            IN CASE inner_col.tag = "vector" ->
                        LET r == ReverseNumber(inner_col.data, offsets, nullable, src_null_map)
                        IN finish(r, ColumnVector(r.data))
                 [] inner_col.tag = "string" ->
                        LET r == ReverseString(inner_col.chars, inner_col.offsets, offsets,
                                               nullable, src_null_map, junk)
                        IN finish(r, ColumnString(r.chars, r.offsets))
                 [] inner_col.tag = "fixed" ->
                        LET r == ReverseFixedString(inner_col.chars, inner_col.n, offsets,
                                                    nullable, src_null_map)
                        IN finish(r, ColumnFixedString(inner_col.n, r.data))
                 [] OTHER -> [block |-> bound, error |-> "ILLEGAL_COLUMN"]

----------------------------------------------------------------------------
(* Inputs of arrayReverse: arrays of numbers, strings and fixed strings.   *)

FixedN == 2

(* The bytes of string number v, with the terminating zero: 0 is the empty *)
(* string, 1 is "a", 2 is "bb".                                            *)
StringBytes(v) == [k \in 1..v |-> 96 + v] \o <<0>>

FixedBytes(v) == <<v>> \o [k \in 1..(FixedN - 1) |-> 0]

MakeString(vals) ==
    ColumnString(Flatten([k \in 1..Len(vals) |-> StringBytes(vals[k])]),
                 [k \in 1..Len(vals) |-> SeqSum([m \in 1..k |-> Len(StringBytes(vals[m]))])])

MakeFixed(vals) == ColumnFixedString(FixedN, Flatten([k \in 1..Len(vals) |-> FixedBytes(vals[k])]))

(* The same array with its numbers stored as kind: "vector", "string" or   *)
(* "fixed".                                                                *)
AsKind(a, kind) ==
    LET conv(v) == CASE kind = "string" -> MakeString(v.data)
                     [] kind = "fixed" -> MakeFixed(v.data)
                     [] kind = "generic" -> [tag |-> "generic", data |-> v.data]
                     [] OTHER -> v
    IN IF isNullable(a.data)
       THEN ColumnArray(ColumnNullable(conv(a.data.nested), a.data.null_map), a.offsets)
       ELSE ColumnArray(conv(a.data), a.offsets)

ElementKinds == {"vector", "string", "fixed"}

ReverseArrays ==
    {AsKind(a, kind) : a \in PlainArrays(MaxRows, MaxElems) \cup NullableArrays(MaxRows, MaxElems),
                       kind \in ElementKinds}
    \cup ConstArrays(MaxRows, MaxElems)

(* What the null map loop of executeString can read behind the offsets of  *)
(* array: one value per string beyond the row count.                       *)
JunkSet(array) ==
    IF array.tag = "array"
    THEN [(Len(array.offsets) + 1)..DataSize(array.offsets) -> 0..(DataSize(array.offsets) + 1)]
    ELSE {<<>>}

----------------------------------------------------------------------------
(* Specification of arrayReverse applied twice: block = <<A, R1, R2>>.     *)

InitReverse ==
    /\ \E a \in ReverseArrays : block = <<a, EmptySlot, EmptySlot>>
    /\ call = NoCall
    /\ error = NoError
    /\ agg = NoAgg

ArrayReverse(argument, result) ==
    /\ \E junk \in JunkSet(block[argument]) :
         LET o == ArrayReverseExecuteImpl(block, <<argument>>, result, junk)
         IN /\ \E r \in ResolveColumn(o.block[result]) : block' = [o.block EXCEPT ![result] = r]
            /\ error' = o.error
    /\ call' = [fn |-> "arrayReverse", arguments |-> <<argument>>, result |-> result]
    /\ UNCHANGED agg

ReverseFirst == call = NoCall /\ ArrayReverse(1, 2)

ReverseSecond == call.result = 2 /\ error = NoError /\ ArrayReverse(2, 3)

NextReverse == ReverseFirst \/ ReverseSecond

SpecReverse == InitReverse /\ [][NextReverse]_vars

(* C2: arrayReverse succeeds on every supported representation, and        *)
(* applying it to its own result gives the original column back: offsets,  *)
(* element values and null bitmap.                                         *)
C2_ReverseInvolution ==
    call.fn = "arrayReverse" =>
        /\ error = NoError
        /\ call.result = 3 => block[3] = block[1]

----------------------------------------------------------------------------
(* FunctionEmptyArrayToSingleImpl.                                         *)

(* A column of a type none of the specialisations casts to; insertDefault  *)
(* appends 0.                                                              *)
ColumnGeneric(d) == [tag |-> "generic", data |-> d]

Zeros(n) == [k \in 1..n |-> 0]

(* The variant of executeConst that appends the default to every constant. *)
EmptyArrayToSingleExecuteConstAppends(blk, arguments, result, nested_default) ==
    LET const_array == blk[arguments[1]]
    IN IF const_array.tag # "const" THEN [handled |-> FALSE, block |-> blk]
       ELSE [handled |-> TRUE,
             block |-> [blk EXCEPT ![result] =
                           ColumnConst(BlockRows(blk), Append(const_array.value, nested_default))]]

(* FunctionEmptyArrayToSingleImpl::executeConst.  nested_default is what   *)
(* nested_type->getDefault() returns for the array's element type.         *)
EmptyArrayToSingleExecuteConst(blk, arguments, result, nested_default) ==
    LET const_array == blk[arguments[1]]
    IN IF const_array.tag # "const" THEN [handled |-> FALSE, block |-> blk]
       ELSE [handled |-> TRUE,
             block |-> [blk EXCEPT ![result] =
                           IF const_array.value = <<>>
                           THEN ColumnConst(BlockRows(blk), <<nested_default>>)
                           ELSE const_array]]

(* The row loop shared by executeNumber (n = 1), executeFixedString (n =   *)
(* the string width) and executeGeneric (n = 1): res.offsets[i] is the     *)
(* running res_prev_offset.                                                *)
RECURSIVE EmptyArrayToSingleLoop(_, _, _, _, _, _, _, _)
EmptyArrayToSingleLoop(src_data, n, src_offsets, nullable, src_null_map, i, src_prev_offset, res) ==
    IF i > Len(src_offsets) THEN res
    ELSE LET res_prev_offset == DataSize(res.offsets)
             step ==
                 IF src_offsets[i] # src_prev_offset
                 THEN LET size_to_write == src_offsets[i] - src_prev_offset
                      IN [data |-> res.data \o SubSeq(src_data, src_prev_offset * n + 1,
                                                      (src_prev_offset + size_to_write) * n),
                          null_map |-> IF nullable
                                       THEN res.null_map \o SubSeq(src_null_map, src_prev_offset + 1,
                                                                   src_prev_offset + size_to_write)
                                       ELSE res.null_map,
                          offsets |-> Append(res.offsets, res_prev_offset + size_to_write)]
                 ELSE [data |-> res.data \o Zeros(n),
                       null_map |-> IF nullable THEN Append(res.null_map, 1) ELSE res.null_map,
                       offsets |-> Append(res.offsets, res_prev_offset + 1)]
         IN EmptyArrayToSingleLoop(src_data, n, src_offsets, nullable, src_null_map,
                                   i + 1, src_offsets[i], step)

EmptyResult == [data |-> <<>>, null_map |-> <<>>, offsets |-> <<>>]

(* FunctionEmptyArrayToSingleImpl::executeNumber<T, nullable>, preceded by *)
(* the variant that loses the null flags of the rows it writes.            *)
EmptyArrayToSingleExecuteNumberDropsFlags(src_data, src_offsets, nullable, src_null_map) ==
    LET r == EmptyArrayToSingleLoop(src_data, 1, src_offsets, nullable, src_null_map, 1, 0, EmptyResult)
    IN [r EXCEPT !.null_map = Zeros(Len(r.null_map))]

EmptyArrayToSingleExecuteNumber(src_data, src_offsets, nullable, src_null_map) ==
    EmptyArrayToSingleLoop(src_data, 1, src_offsets, nullable, src_null_map, 1, 0, EmptyResult)

(* FunctionEmptyArrayToSingleImpl::executeFixedString<nullable> *)
EmptyArrayToSingleExecuteFixedString(src_data, n, src_offsets, nullable, src_null_map) ==
    EmptyArrayToSingleLoop(src_data, n, src_offsets, nullable, src_null_map, 1, 0, EmptyResult)

(* FunctionEmptyArrayToSingleImpl::executeGeneric<nullable> *)
EmptyArrayToSingleExecuteGeneric(src_data, src_offsets, nullable, src_null_map) ==
    EmptyArrayToSingleLoop(src_data, 1, src_offsets, nullable, src_null_map, 1, 0, EmptyResult)

(* The inner loop over the strings of one row: pushes the end of each      *)
(* string into res_string_offsets.                                         *)
RECURSIVE EmptyStringOffsetsLoop(_, _, _, _, _, _, _)
EmptyStringOffsetsLoop(src_string_offsets, src_array_prev_offset, array_size, j, from_string_prev_offset_local, res_string_prev_offset, res_string_offsets) ==
    IF j >= array_size
    THEN [res_string_offsets |-> res_string_offsets, res_string_prev_offset |-> res_string_prev_offset,
          bytes_to_copy |-> from_string_prev_offset_local]
    ELSE LET string_size == src_string_offsets[src_array_prev_offset + j + 1]
                                - from_string_prev_offset_local
         IN EmptyStringOffsetsLoop(src_string_offsets, src_array_prev_offset, array_size, j + 1,
                                   from_string_prev_offset_local + string_size,
                                   res_string_prev_offset + string_size,
                                   Append(res_string_offsets, res_string_prev_offset + string_size))

RECURSIVE EmptyStringLoop(_, _, _, _, _, _, _, _, _)
EmptyStringLoop(src_data, src_string_offsets, src_array_offsets, nullable, src_null_map, i, src_array_prev_offset, src_string_prev_offset, res) ==
    IF i > Len(src_array_offsets) THEN res
    ELSE LET res_array_prev_offset == DataSize(res.offsets)
             res_string_prev_offset == DataSize(res.string_offsets)
             step ==
                 IF src_array_offsets[i] # src_array_prev_offset
                 THEN LET array_size == src_array_offsets[i] - src_array_prev_offset
                          inner == EmptyStringOffsetsLoop(src_string_offsets, src_array_prev_offset,
                                                          array_size, 0, src_string_prev_offset,
                                                          res_string_prev_offset, res.string_offsets)
                          bytes_to_copy == inner.bytes_to_copy - src_string_prev_offset
                      IN [data |-> res.data \o SubSeq(src_data, src_string_prev_offset + 1,
                                                      src_string_prev_offset + bytes_to_copy),
                          string_offsets |-> inner.res_string_offsets,
                          null_map |-> IF nullable
                                       THEN res.null_map \o SubSeq(src_null_map, src_array_prev_offset + 1,
                                                                   src_array_prev_offset + array_size)
                                       ELSE res.null_map,
                          offsets |-> Append(res.offsets, res_array_prev_offset + array_size)]
                 ELSE [data |-> Append(res.data, 0),
                       string_offsets |-> Append(res.string_offsets, res_string_prev_offset + 1),
                       null_map |-> IF nullable THEN Append(res.null_map, 1) ELSE res.null_map,
                       offsets |-> Append(res.offsets, res_array_prev_offset + 1)]
         IN EmptyStringLoop(src_data, src_string_offsets, src_array_offsets, nullable, src_null_map,
                            i + 1, src_array_offsets[i],
                            IF src_array_offsets[i] # 0
                            THEN src_string_offsets[src_array_offsets[i]]
                            ELSE src_string_prev_offset,
                            step)

(* FunctionEmptyArrayToSingleImpl::executeString<nullable> *)
EmptyArrayToSingleExecuteString(src_data, src_string_offsets, src_array_offsets, nullable, src_null_map) ==
    EmptyStringLoop(src_data, src_string_offsets, src_array_offsets, nullable, src_null_map, 1, 0, 0,
                    [data |-> <<>>, string_offsets |-> <<>>, null_map |-> <<>>, offsets |-> <<>>])

(* FunctionEmptyArrayToSingleImpl::executeDispatch<nullable>: the inner    *)
(* result column and the result's null map and offsets.                    *)
EmptyArrayToSingleExecuteDispatch(inner_col, src_offsets, nullable, src_null_map) ==
    CASE inner_col.tag = "vector" ->
             LET r == EmptyArrayToSingleExecuteNumber(inner_col.data, src_offsets, nullable, src_null_map)
             IN [inner |-> ColumnVector(r.data), null_map |-> r.null_map, offsets |-> r.offsets]
      [] inner_col.tag = "string" ->
             LET r == EmptyArrayToSingleExecuteString(inner_col.chars, inner_col.offsets, src_offsets,
                                                      nullable, src_null_map)
             IN [inner |-> ColumnString(r.data, r.string_offsets), null_map |-> r.null_map,
                 offsets |-> r.offsets]
      [] inner_col.tag = "fixed" ->
             LET r == EmptyArrayToSingleExecuteFixedString(inner_col.chars, inner_col.n, src_offsets,
                                                           nullable, src_null_map)
             IN [inner |-> ColumnFixedString(inner_col.n, r.data), null_map |-> r.null_map,
                 offsets |-> r.offsets]
      [] OTHER ->
             LET r == EmptyArrayToSingleExecuteGeneric(inner_col.data, src_offsets, nullable, src_null_map)
             IN [inner |-> ColumnGeneric(r.data), null_map |-> r.null_map, offsets |-> r.offsets]

(* FunctionEmptyArrayToSingle::executeImpl: returns [block, error]. *)
EmptyArrayToSingleExecuteImpl(blk, arguments, result, nested_default) ==
    LET c == EmptyArrayToSingleExecuteConst(blk, arguments, result, nested_default)
        array == blk[arguments[1]]
    IN IF c.handled THEN [block |-> c.block, error |-> NoError]
       ELSE IF array.tag # "array" THEN [block |-> blk, error |-> "ILLEGAL_COLUMN"]
       ELSE LET src_data == array.data
                nullable == isNullable(src_data)
                inner_col == IF nullable THEN src_data.nested ELSE src_data
                src_null_map == IF nullable THEN src_data.null_map ELSE <<>>
                r == EmptyArrayToSingleExecuteDispatch(inner_col, array.offsets, nullable, src_null_map)
            IN [block |-> [blk EXCEPT ![result] =
                              ColumnArray(IF nullable THEN ColumnNullable(r.inner, r.null_map)
                                                      ELSE r.inner, r.offsets)],
                error |-> NoError]

----------------------------------------------------------------------------
(* Specification of emptyArrayToSingle, applied to A and then to its own   *)
(* result: block = <<A, R1, R2>>.                                          *)

EmptyToSingleKinds == ElementKinds \cup {"generic"}

EmptyToSingleArrays ==
    {AsKind(a, kind) : a \in PlainArrays(MaxRows, MaxElems) \cup NullableArrays(MaxRows, MaxElems),
                       kind \in EmptyToSingleKinds}
    \cup ConstArrays(MaxRows, MaxElems)

(* The defaults an element type can have: NULL only if it is nullable. *)
NestedDefaults(col) ==
    IF col.tag = "const" /\ \E k \in 1..Len(col.value) : col.value[k] = FieldNull
    THEN {FieldNull}
    ELSE IF col.tag = "const" THEN {TypeDefault, FieldNull} ELSE {TypeDefault}

InitEmptyToSingle ==
    /\ \E a \in EmptyToSingleArrays : block = <<a, EmptySlot, EmptySlot>>
    /\ call = NoCall
    /\ error = NoError
    /\ agg = NoAgg

EmptyArrayToSingle ==
    /\ call = NoCall
    /\ \E nested_default \in NestedDefaults(block[1]) :
         LET o == EmptyArrayToSingleExecuteImpl(block, <<1>>, 2, nested_default)
         IN /\ block' = o.block
            /\ error' = o.error
            /\ call' = [fn |-> "emptyArrayToSingle", arguments |-> <<1>>, result |-> 2,
                        nested_default |-> nested_default]
    /\ UNCHANGED agg

(* The second application: the element type, and so its default, is that  *)
(* of the first.                                                           *)
EmptyArrayToSingleAgain ==
    /\ call.fn = "emptyArrayToSingle" /\ call.result = 2 /\ error = NoError
    /\ LET o == EmptyArrayToSingleExecuteImpl(block, <<2>>, 3, call.nested_default)
       IN /\ block' = o.block
          /\ error' = o.error
    /\ call' = [call EXCEPT !.arguments = <<2>>, !.result = 3]
    /\ UNCHANGED agg

NextEmptyToSingle == EmptyArrayToSingle \/ EmptyArrayToSingleAgain

SpecEmptyToSingle == InitEmptyToSingle /\ [][NextEmptyToSingle]_vars

(* The elements of a nested column, one entry per element: a number, the   *)
(* bytes of a string, or for a nullable column the value with its flag.    *)
RECURSIVE ElemsOf(_)
ElemsOf(col) ==
    CASE col.tag = "string" ->
             [k \in 1..Len(col.offsets) |->
                 SubSeq(col.chars, PrevOffset(col.offsets, k) + 1, col.offsets[k])]
      [] col.tag = "fixed" ->
             [k \in 1..(Len(col.chars) \div col.n) |-> SubSeq(col.chars, (k - 1) * col.n + 1, k * col.n)]
      [] col.tag = "nullable" ->
             [k \in 1..Len(col.null_map) |-> [v |-> ElemsOf(col.nested)[k], null |-> col.null_map[k]]]
      [] OTHER -> col.data

(* Row r of an array column, constant or not. *)
RowOf(col, r) ==
    IF col.tag = "const" THEN col.value
    ELSE SubSeq(ElemsOf(col.data), PrevOffset(col.offsets, r) + 1, col.offsets[r])

(* The element inserted for an empty row of col, flagged with null_flag if *)
(* the elements are nullable.                                              *)
InsertedElement(col, null_flag) ==
    LET plain(c) == CASE c.tag = "string" -> <<0>>
                      [] c.tag = "fixed" -> Zeros(c.n)
                      [] OTHER -> 0
    IN IF isNullable(col.data) THEN [v |-> plain(col.data.nested), null |-> null_flag]
       ELSE plain(col.data)

EmptyToSingleDone == call.fn = "emptyArrayToSingle"

(* Non-empty rows are copied unchanged, values and null flags alike, the   *)
(* row count is kept, and an empty row becomes the single element e.  A    *)
(* constant empty array becomes the one-element constant holding the       *)
(* default of the element type.                                            *)
EmptyToSingleResultIs(null_flag) ==
    /\ error = NoError
    /\ block[2].tag = block[1].tag
    /\ Rows(block[2]) = Rows(block[1])
    /\ block[1].tag = "array" => Len(ElemsOf(block[2].data)) = DataSize(block[2].offsets)
    /\ \A r \in 1..Rows(block[1]) :
         RowOf(block[2], r) =
             IF RowOf(block[1], r) # <<>> THEN RowOf(block[1], r)
             ELSE IF block[1].tag = "const" THEN <<call.nested_default>>
             ELSE <<InsertedElement(block[1], null_flag)>>

(* C3 as stated: the element inserted for an empty row of a nullable array *)
(* is marked not-null (bitmap entry 0).                                    *)
C3_InsertedElementNotNull == EmptyToSingleDone => EmptyToSingleResultIs(0)

(* C3 amended: every row of length 0 becomes a one-element row holding the *)
(* default value, and in a nullable array that element is marked NULL      *)
(* (bitmap entry 1); non-empty rows are copied unchanged with their flags  *)
(* and the row count is kept.                                              *)
C3_EmptyRowsBecomeNullSingletons == EmptyToSingleDone => EmptyToSingleResultIs(1)

(* C3 witness: a nullable array with an empty row and a non-empty row      *)
(* holding a NULL, after the call.                                         *)
C3_Witness ==
    /\ EmptyToSingleDone
    /\ block[1].tag = "array" /\ isNullable(block[1].data)
    /\ \E r \in 1..Rows(block[1]) : RowOf(block[1], r) = <<>>
    /\ \E r \in 1..Rows(block[1]) : \E k \in 1..Len(RowOf(block[1], r)) : RowOf(block[1], r)[k].null = 1

(* C20: emptyArrayToSingle applied to its own result returns that result:  *)
(* offsets, element values and null bitmap.                                *)
C20_EmptyToSingleIdempotent ==
    (call.fn = "emptyArrayToSingle" /\ call.result = 3) =>
        /\ error = NoError
        /\ block[3] = block[2]

C20_Witness ==
    /\ call.fn = "emptyArrayToSingle"
    /\ call.result = 3
    /\ block[1].tag = "array"
    /\ isNullable(block[1].data)
    /\ \E r \in 1..Rows(block[1]) : RowOf(block[1], r) = <<>>
    /\ block[2] # block[1]
    /\ block[3] = block[2]

----------------------------------------------------------------------------
(* FunctionArrayUniq and FunctionArrayEnumerateUniq.                       *)

Range(f) == {f[k] : k \in DOMAIN f}

NoNullMap == [has |-> FALSE, data |-> <<>>]

(* offsets_i != *offsets, preceded by the variant that compares the total  *)
(* element counts only.                                                    *)
OffsetsDifferInTotal(offsets_i, offsets) == DataSize(offsets_i) # DataSize(offsets)

OffsetsDiffer(offsets_i, offsets) == offsets_i # offsets

(* The argument loop of executeImpl: the arrays' offsets, nested data      *)
(* columns and null maps, or the error the loop throws.                    *)
RECURSIVE CollectArrays(_, _, _, _)
CollectArrays(blk, arguments, i, acc) ==
    IF i > Len(arguments) \/ acc.error # NoError THEN acc
    ELSE LET array_ptr == blk[arguments[i]]
         IN IF array_ptr.tag # "array" /\ array_ptr.tag # "const"
            THEN [acc EXCEPT !.error = "ILLEGAL_COLUMN"]
            ELSE LET array == IF array_ptr.tag = "array" THEN array_ptr
                              ELSE convertToFullColumn(array_ptr)
                     nullable == isNullable(array.data)
                 IN IF i > 1 /\ OffsetsDiffer(array.offsets, acc.offsets)
                    THEN [acc EXCEPT !.error = "SIZES_OF_ARRAYS_DOESNT_MATCH"]
                    ELSE CollectArrays(blk, arguments, i + 1,
                            [error |-> NoError,
                             array_columns |-> Append(acc.array_columns, array),
                             offsets |-> IF i = 1 THEN array.offsets ELSE acc.offsets,
                             data_columns |-> Append(acc.data_columns,
                                                     IF nullable THEN array.data.nested ELSE array.data),
                             original_data_columns |-> Append(acc.original_data_columns, array.data),
                             null_maps |-> Append(acc.null_maps,
                                                  IF nullable THEN [has |-> TRUE, data |-> array.data.null_map]
                                                  ELSE NoNullMap),
                             has_nullable_columns |-> acc.has_nullable_columns \/ nullable])

NoArrays ==
    [error |-> NoError, array_columns |-> <<>>, offsets |-> <<>>, data_columns |-> <<>>,
     original_data_columns |-> <<>>, null_maps |-> <<>>, has_nullable_columns |-> FALSE]

(* IColumn::isFixed() and IColumn::sizeOfField(): the numbers are UInt8. *)
isFixed(col) == col.tag = "vector" \/ col.tag = "fixed"

sizeOfField(col) == IF col.tag = "fixed" THEN col.n ELSE 1

(* std::tuple_size<KeysNullMap<UInt128>>::value *)
KeysNullMapSize == 2

(* The element of a nested column at position j (0-based). *)
getDataAt(col, j) ==
    CASE col.tag = "string" -> SubSeq(col.chars, PrevOffset(col.offsets, j + 1) + 1, col.offsets[j + 1])
      [] col.tag = "fixed" -> SubSeq(col.chars, j * col.n + 1, (j + 1) * col.n)
      [] OTHER -> col.data[j + 1]

(* packFixed<UInt128>(j, count, columns, key_sizes, bitmap): the bitmap    *)
(* followed by the bytes of the columns whose bit is not set.              *)
packFixed(j, count, columns, bitmap) ==
    <<bitmap, [k \in {c \in 1..count : c \notin bitmap} |-> getDataAt(columns[k], j)]>>

(* hash128(j, count, columns): a 128-bit hash of the values at position j, *)
(* taken to be collision-free; a nullable column hashes its flag and, when *)
(* it is not null, its value.                                              *)
hash128(j, count, columns) ==
    [k \in 1..count |->
        IF isNullable(columns[k])
        THEN IF columns[k].null_map[j + 1] = 1 THEN <<1>>
             ELSE <<0, getDataAt(columns[k].nested, j)>>
        ELSE <<getDataAt(columns[k], j)>>]

(* The bitmap loop of execute128bit: the set of the columns (1-based) that *)
(* are NULL at position j.                                                 *)
KeysBitmap(null_maps, j) ==
    {i \in 1..Len(null_maps) : null_maps[i].has /\ null_maps[i].data[j + 1] = 1}

(* The key size test that opens execute128bit. *)
Fits128bit(columns, has_nullable_columns) ==
    /\ \A j \in 1..Len(columns) : isFixed(columns[j])
    /\ SeqSum([j \in 1..Len(columns) |-> sizeOfField(columns[j])])
           + (IF has_nullable_columns THEN KeysNullMapSize ELSE 0) <= 16

----------------------------------------------------------------------------
(* FunctionArrayUniq.                                                      *)

(* The element loop of executeNumber and executeString for one row. *)
RECURSIVE UniqRowLoop(_, _, _, _, _)
UniqRowLoop(col, null_map, j, off, st) ==
    IF j >= off THEN st
    ELSE UniqRowLoop(col, null_map, j + 1, off,
                     IF null_map.has /\ null_map.data[j + 1] = 1
                     THEN [st EXCEPT !.found_null = TRUE]
                     ELSE [st EXCEPT !.set = @ \cup {getDataAt(col, j)}])

(* res_values[i] = set.size() + (found_null ? 1 : 0); the variant leaves   *)
(* the null group out.                                                     *)
UniqRowResultWithoutNull(st) == Cardinality(st.set)

UniqRowResult(st) == Cardinality(st.set) + (IF st.found_null THEN 1 ELSE 0)

RECURSIVE UniqLoop(_, _, _, _, _, _)
UniqLoop(col, offsets, null_map, i, prev_off, res_values) ==
    IF i > Len(offsets) THEN res_values
    ELSE LET off == offsets[i]
             st == UniqRowLoop(col, null_map, prev_off, off, [set |-> {}, found_null |-> FALSE])
         IN UniqLoop(col, offsets, null_map, i + 1, off, [res_values EXCEPT ![i] = UniqRowResult(st)])

(* FunctionArrayUniq::executeNumber<T> *)
ArrayUniqExecuteNumber(array, null_map, res_values) ==
    LET inner_col == IF isNullable(array.data) THEN array.data.nested ELSE array.data
    IN IF inner_col.tag # "vector" THEN [handled |-> FALSE, res_values |-> res_values]
       ELSE [handled |-> TRUE,
             res_values |-> UniqLoop(inner_col, array.offsets, null_map, 1, 0, res_values)]

(* FunctionArrayUniq::executeString *)
ArrayUniqExecuteString(array, null_map, res_values) ==
    LET inner_col == IF isNullable(array.data) THEN array.data.nested ELSE array.data
    IN IF inner_col.tag # "string" THEN [handled |-> FALSE, res_values |-> res_values]
       ELSE [handled |-> TRUE,
             res_values |-> UniqLoop(inner_col, array.offsets, null_map, 1, 0, res_values)]

(* FunctionArrayUniq::executeConst: std::set<Field> of the values. *)
ArrayUniqExecuteConst(blk, arguments, result) ==
    LET array == blk[arguments[1]]
    IN IF array.tag # "const" THEN [handled |-> FALSE, block |-> blk]
       ELSE [handled |-> TRUE,
             block |-> [blk EXCEPT ![result] =
                           ColumnConst(array.rows, FieldUInt64(Cardinality(Range(array.value))))]]

(* The keys of the positions prev_off .. off - 1, one per position. *)
Keys128bit(columns, null_maps, has_nullable_columns, prev_off, off) ==
    [p \in 1..(off - prev_off) |->
        packFixed(prev_off + p - 1, Len(columns), columns,
                  IF has_nullable_columns THEN KeysBitmap(null_maps, prev_off + p - 1) ELSE {})]

KeysHashed(columns, prev_off, off) ==
    [p \in 1..(off - prev_off) |-> hash128(prev_off + p - 1, Len(columns), columns)]

(* FunctionArrayUniq::execute128bit, preceded by the variant that counts   *)
(* the positions of a row instead of its distinct keys.                    *)
ArrayUniqExecute128bitCountsPositions(offsets, columns, null_maps, res_values, has_nullable_columns) ==
    IF ~Fits128bit(columns, has_nullable_columns) THEN [handled |-> FALSE, res_values |-> res_values]
    ELSE [handled |-> TRUE,
          res_values |-> [i \in 1..Len(offsets) |-> offsets[i] - PrevOffset(offsets, i)]]

ArrayUniqExecute128bit(offsets, columns, null_maps, res_values, has_nullable_columns) ==
    IF ~Fits128bit(columns, has_nullable_columns) THEN [handled |-> FALSE, res_values |-> res_values]
    ELSE [handled |-> TRUE,
          res_values |-> [i \in 1..Len(offsets) |->
              Cardinality(Range(Keys128bit(columns, null_maps, has_nullable_columns,
                                           PrevOffset(offsets, i), offsets[i])))]]

(* FunctionArrayUniq::executeHashed *)
ArrayUniqExecuteHashed(offsets, columns, res_values) ==
    [i \in 1..Len(offsets) |->
        Cardinality(Range(KeysHashed(columns, PrevOffset(offsets, i), offsets[i])))]

(* FunctionArrayUniq::executeImpl: returns [block, error]. *)
ArrayUniqExecuteImpl(blk, arguments, result) ==
    LET c == IF Len(arguments) = 1 THEN ArrayUniqExecuteConst(blk, arguments, result)
             ELSE [handled |-> FALSE, block |-> blk]
    IN IF c.handled THEN [block |-> c.block, error |-> NoError]
       ELSE LET a == CollectArrays(blk, arguments, 1, NoArrays)
            IN IF a.error # NoError THEN [block |-> blk, error |-> a.error]
               ELSE LET first_array == a.array_columns[1]
                        first_null_map == a.null_maps[1]
                        res_values == UninitSeq(Len(a.offsets))
                        bind(v) == [blk EXCEPT ![result] = ColumnVector(v)]
                    IN IF Len(arguments) = 1
                       THEN LET n == ArrayUniqExecuteNumber(first_array, first_null_map, res_values)
                                t == ArrayUniqExecuteString(first_array, first_null_map, res_values)
                            IN IF n.handled THEN [block |-> bind(n.res_values), error |-> NoError]
                               ELSE IF t.handled THEN [block |-> bind(t.res_values), error |-> NoError]
                               ELSE [block |-> bind(res_values), error |-> "ILLEGAL_COLUMN"]
                       ELSE LET k == ArrayUniqExecute128bit(a.offsets, a.data_columns, a.null_maps,
                                                            res_values, a.has_nullable_columns)
                            IN IF k.handled THEN [block |-> bind(k.res_values), error |-> NoError]
                               ELSE [block |-> bind(ArrayUniqExecuteHashed(a.offsets,
                                                        a.original_data_columns, res_values)),
                                     error |-> NoError]

----------------------------------------------------------------------------
(* FunctionArrayEnumerateUniq.                                             *)

(* ++indices[key] on a hash map that holds 0 for a key it has not seen:    *)
(* the map after the increment.  The variant before it stores 1 whatever   *)
(* the map held.                                                           *)
IncrementForgets(indices, key) ==
    [k \in DOMAIN indices \cup {key} |-> IF k = key THEN 1 ELSE indices[k]]

Increment(indices, key) ==
    IF key \in DOMAIN indices THEN [indices EXCEPT ![key] = @ + 1]
    ELSE [k \in DOMAIN indices \cup {key} |-> IF k = key THEN 1 ELSE indices[k]]

EmptyIndices == [k \in {} |-> 0]

(* res_values[j] = v for a 0-based j. *)
Store(res_values, j, v) == [res_values EXCEPT ![j + 1] = v]

(* The loops of executeNumber and executeString: st holds the map, the     *)
(* null counter and the result values written so far.                      *)
RECURSIVE EnumerateRowLoop(_, _, _, _, _)
EnumerateRowLoop(col, null_map, j, off, st) ==
    IF j >= off THEN st
    ELSE EnumerateRowLoop(col, null_map, j + 1, off,
            IF null_map.has /\ null_map.data[j + 1] = 1
            THEN [st EXCEPT !.null_count = @ + 1,
                            !.res_values = Store(@, j, st.null_count + 1)]
            ELSE LET indices == Increment(st.indices, getDataAt(col, j))
                 IN [st EXCEPT !.indices = indices,
                               !.res_values = Store(@, j, indices[getDataAt(col, j)])])

RECURSIVE EnumerateLoop(_, _, _, _, _, _)
EnumerateLoop(col, offsets, null_map, i, prev_off, res_values) ==
    IF i > Len(offsets) THEN res_values
    ELSE LET off == offsets[i]
             st == EnumerateRowLoop(col, null_map, prev_off, off,
                                    [indices |-> EmptyIndices, null_count |-> 0,
                                     res_values |-> res_values])
         IN EnumerateLoop(col, offsets, null_map, i + 1, off, st.res_values)

(* FunctionArrayEnumerateUniq::executeNumber<T>, preceded by the variant   *)
(* that never clears the map and the null counter between rows.            *)
ArrayEnumerateUniqExecuteNumberNeverClears(array, null_map, res_values) ==
    LET inner_col == IF isNullable(array.data) THEN array.data.nested ELSE array.data
    IN IF inner_col.tag # "vector" THEN [handled |-> FALSE, res_values |-> res_values]
       ELSE [handled |-> TRUE,
             res_values |-> EnumerateLoop(inner_col, <<DataSize(array.offsets)>>, null_map,
                                          1, 0, res_values)]

ArrayEnumerateUniqExecuteNumber(array, null_map, res_values) ==
    LET inner_col == IF isNullable(array.data) THEN array.data.nested ELSE array.data
    IN IF inner_col.tag # "vector" THEN [handled |-> FALSE, res_values |-> res_values]
       ELSE [handled |-> TRUE,
             res_values |-> EnumerateLoop(inner_col, array.offsets, null_map, 1, 0, res_values)]

(* FunctionArrayEnumerateUniq::executeString, preceded by the variant that *)
(* keeps the map and the null counter of the rows before.                  *)
ArrayEnumerateUniqExecuteStringKeepsTable(array, null_map, res_values) ==
    LET inner_col == IF isNullable(array.data) THEN array.data.nested ELSE array.data
    IN IF inner_col.tag # "string" THEN [handled |-> FALSE, res_values |-> res_values]
       ELSE [handled |-> TRUE,
             res_values |-> EnumerateLoop(inner_col, <<DataSize(array.offsets)>>, null_map,
                                          1, 0, res_values)]

ArrayEnumerateUniqExecuteString(array, null_map, res_values) ==
    LET inner_col == IF isNullable(array.data) THEN array.data.nested ELSE array.data
    IN IF inner_col.tag # "string" THEN [handled |-> FALSE, res_values |-> res_values]
       ELSE [handled |-> TRUE,
             res_values |-> EnumerateLoop(inner_col, array.offsets, null_map, 1, 0, res_values)]

(* The loop of executeConst over std::map<Field, UInt32>. *)
RECURSIVE EnumerateConstLoop(_, _, _, _)
EnumerateConstLoop(values, i, indices, res_values) ==
    IF i > Len(values) THEN res_values
    ELSE LET next == Increment(indices, values[i])
         IN EnumerateConstLoop(values, i + 1, next, Append(res_values, FieldUInt64(next[values[i]])))

(* FunctionArrayEnumerateUniq::executeConst *)
ArrayEnumerateUniqExecuteConst(blk, arguments, result) ==
    LET array == blk[arguments[1]]
    IN IF array.tag # "const" THEN [handled |-> FALSE, block |-> blk]
       ELSE [handled |-> TRUE,
             block |-> [blk EXCEPT ![result] =
                           ColumnConst(array.rows, EnumerateConstLoop(array.value, 1, EmptyIndices, <<>>))]]

(* The loops of execute128bit and executeHashed over the keys of a row. *)
RECURSIVE EnumerateKeysRowLoop(_, _, _, _, _)
EnumerateKeysRowLoop(keys, p, prev_off, indices, res_values) ==
    IF p > Len(keys) THEN res_values
    ELSE LET next == Increment(indices, keys[p])
         IN EnumerateKeysRowLoop(keys, p + 1, prev_off, next,
                                 Store(res_values, prev_off + p - 1, next[keys[p]]))

RECURSIVE Enumerate128bitLoop(_, _, _, _, _, _, _)
Enumerate128bitLoop(offsets, columns, null_maps, has_nullable_columns, i, prev_off, res_values) ==
    IF i > Len(offsets) THEN res_values
    ELSE Enumerate128bitLoop(offsets, columns, null_maps, has_nullable_columns, i + 1, offsets[i],
            EnumerateKeysRowLoop(Keys128bit(columns, null_maps, has_nullable_columns, prev_off, offsets[i]),
                                 1, prev_off, EmptyIndices, res_values))

(* FunctionArrayEnumerateUniq::execute128bit *)
ArrayEnumerateUniqExecute128bit(offsets, columns, null_maps, res_values, has_nullable_columns) ==
    IF ~Fits128bit(columns, has_nullable_columns) THEN [handled |-> FALSE, res_values |-> res_values]
    ELSE [handled |-> TRUE,
          res_values |-> Enumerate128bitLoop(offsets, columns, null_maps, has_nullable_columns,
                                             1, 0, res_values)]

RECURSIVE EnumerateHashedLoop(_, _, _, _, _)
EnumerateHashedLoop(offsets, columns, i, prev_off, res_values) ==
    IF i > Len(offsets) THEN res_values
    ELSE EnumerateHashedLoop(offsets, columns, i + 1, offsets[i],
            EnumerateKeysRowLoop(KeysHashed(columns, prev_off, offsets[i]),
                                 1, prev_off, EmptyIndices, res_values))

(* FunctionArrayEnumerateUniq::executeHashed *)
ArrayEnumerateUniqExecuteHashed(offsets, columns, res_values) ==
    EnumerateHashedLoop(offsets, columns, 1, 0, res_values)

(* FunctionArrayEnumerateUniq::executeImpl: returns [block, error]. *)
ArrayEnumerateUniqExecuteImpl(blk, arguments, result) ==
    LET c == IF Len(arguments) = 1 THEN ArrayEnumerateUniqExecuteConst(blk, arguments, result)
             ELSE [handled |-> FALSE, block |-> blk]
    IN IF c.handled THEN [block |-> c.block, error |-> NoError]
       ELSE LET a == CollectArrays(blk, arguments, 1, NoArrays)
            IN IF a.error # NoError THEN [block |-> blk, error |-> a.error]
               ELSE LET first_array == a.array_columns[1]
                        first_null_map == a.null_maps[1]
                        res_values == UninitSeq(DataSize(a.offsets))
                        bind(v) == [blk EXCEPT ![result] =
                                       ColumnArray(ColumnVector(v), first_array.offsets)]
                    IN IF Len(arguments) = 1
                       THEN LET n == ArrayEnumerateUniqExecuteNumber(first_array, first_null_map, res_values)
                                t == ArrayEnumerateUniqExecuteString(first_array, first_null_map, res_values)
                            IN IF n.handled THEN [block |-> bind(n.res_values), error |-> NoError]
                               ELSE IF t.handled THEN [block |-> bind(t.res_values), error |-> NoError]
                               ELSE [block |-> bind(res_values), error |-> "ILLEGAL_COLUMN"]
                       ELSE LET k == ArrayEnumerateUniqExecute128bit(a.offsets, a.data_columns, a.null_maps,
                                                                     res_values, a.has_nullable_columns)
                            IN IF k.handled THEN [block |-> bind(k.res_values), error |-> NoError]
                               ELSE [block |-> bind(ArrayEnumerateUniqExecuteHashed(a.offsets,
                                                        a.original_data_columns, res_values)),
                                     error |-> NoError]

----------------------------------------------------------------------------
(* Specification of arrayUniq and arrayEnumerateUniq over one array or two *)
(* zipped arrays: block = <<A, B, R>>.                                     *)

UniqKinds == {"vector", "string"}

UniqFirstArrays ==
    {AsKind(a, kind) : a \in PlainArrays(MaxRows, MaxElems) \cup NullableArrays(MaxRows, MaxElems),
                       kind \in UniqKinds}
    \cup ConstArrays(MaxRows, MaxElems)

UniqSecondArrays == PlainArrays(MaxRows, MaxElems) \cup NullableArrays(MaxRows, MaxElems)

UniqArguments == {<<1>>, <<1, 2>>}

InitUniq ==
    /\ \E a \in UniqFirstArrays : \E b \in UniqSecondArrays :
         /\ Rows(a) = Rows(b)
         /\ block = <<a, b, EmptySlot>>
    /\ call = NoCall
    /\ error = NoError
    /\ agg = NoAgg

UniqCall(fn, arguments, o) ==
    /\ \E r \in ResolveColumn(o.block[3]) : block' = [o.block EXCEPT ![3] = r]
    /\ error' = o.error
    /\ call' = [fn |-> fn, arguments |-> arguments, result |-> 3]
    /\ UNCHANGED agg

ArrayUniq ==
    /\ call = NoCall
    /\ \E arguments \in UniqArguments :
         UniqCall("arrayUniq", arguments, ArrayUniqExecuteImpl(block, arguments, 3))

ArrayEnumerateUniq ==
    /\ call = NoCall
    /\ \E arguments \in UniqArguments :
         UniqCall("arrayEnumerateUniq", arguments, ArrayEnumerateUniqExecuteImpl(block, arguments, 3))

NextUniq == ArrayUniq \/ ArrayEnumerateUniq

SpecUniq == InitUniq /\ [][NextUniq]_vars

(* Row r of an argument as items [v, null]: the value and whether the      *)
(* element is NULL.                                                        *)
RowItems(col, r) ==
    LET row == RowOf(col, r)
    IN CASE col.tag = "const" ->
                [k \in 1..Len(row) |-> [v |-> row[k], null |-> IF row[k] = FieldNull THEN 1 ELSE 0]]
         [] isNullable(col.data) -> row
         [] OTHER -> [k \in 1..Len(row) |-> [v |-> row[k], null |-> 0]]

(* Two items hold the same value: both NULL, or both not NULL and equal. *)
SameItem(x, y) == x.null = y.null /\ (x.null = 1 \/ x.v = y.v)

(* Positions p and q of row r hold the same value in every argument. *)
SameAt(arguments, r, p, q) ==
    \A a \in Range(arguments) : SameItem(RowItems(block[a], r)[p], RowItems(block[a], r)[q])

UniqDone(fn) == call.fn = fn /\ error = NoError

(* The result value at position p of row r; a constant result holds one    *)
(* array of fields for every row.                                          *)
RankAt(r, p) ==
    IF block[3].tag = "const" THEN block[3].value[p].value ELSE RowOf(block[3], r)[p]

(* C6: the rank at position p of a row is the number of positions q <= p   *)
(* of the same row that hold the same value as p, all NULLs of the row     *)
(* forming one group; so the counters restart at every row boundary.       *)
C6_EnumerateUniqRank ==
    UniqDone("arrayEnumerateUniq") =>
        /\ Rows(block[3]) = Rows(block[1])
        /\ \A r \in 1..Rows(block[1]) :
             /\ Len(RowOf(block[3], r)) = Len(RowOf(block[1], r))
             /\ \A p \in 1..Len(RowOf(block[1], r)) :
                  RankAt(r, p) = Cardinality({q \in 1..p : SameAt(call.arguments, r, p, q)})

(* C6 witness: a varying array whose second row repeats a value of its     *)
(* first row, ranked 1 again after the row boundary.                       *)
C6_Witness ==
    /\ UniqDone("arrayEnumerateUniq")
    /\ call.arguments = <<1>>
    /\ block[1].tag = "array" /\ Rows(block[1]) >= 2
    /\ Len(RowOf(block[1], 1)) >= 1 /\ Len(RowOf(block[1], 2)) >= 1
    /\ SameItem(RowItems(block[1], 1)[1], RowItems(block[1], 2)[1])
    /\ RankAt(2, 1) = 1

(* The count arrayUniq stored for row r. *)
CountAt(col, r) == IF col.tag = "const" THEN col.value.value ELSE col.data[r]

(* C7: for a single array argument the count of a row is the number of     *)
(* distinct non-null values in it, plus 1 if the row holds at least one    *)
(* NULL, for a varying and for a constant array.                           *)
C7_UniqCountsNullOnce ==
    (UniqDone("arrayUniq") /\ call.arguments = <<1>>) =>
        /\ Rows(block[3]) = Rows(block[1])
        /\ \A r \in 1..Rows(block[1]) :
             LET items == RowItems(block[1], r)
             IN CountAt(block[3], r) =
                    Cardinality({items[k].v : k \in {n \in 1..Len(items) : items[n].null = 0}})
                    + (IF \E k \in 1..Len(items) : items[k].null = 1 THEN 1 ELSE 0)

(* C7 witness: a varying row with two NULLs, counted once. *)
C7_Witness ==
    /\ UniqDone("arrayUniq") /\ call.arguments = <<1>>
    /\ block[1].tag = "array"
    /\ \E r \in 1..Rows(block[1]) :
         /\ Cardinality({k \in 1..Len(RowItems(block[1], r)) : RowItems(block[1], r)[k].null = 1}) >= 2
         /\ CountAt(block[3], r) = 1

(* A nested column of the kind of proto holding elems. *)
RECURSIVE ColumnFromElems(_, _)
ColumnFromElems(proto, elems) ==
    CASE proto.tag = "string" -> ColumnString(Flatten(elems), OffsetsOf(elems))
      [] proto.tag = "nullable" ->
             ColumnNullable(ColumnFromElems(proto.nested, [k \in 1..Len(elems) |-> elems[k].v]),
                            [k \in 1..Len(elems) |-> elems[k].null])
      [] OTHER -> ColumnVector(elems)

(* The argument col with row r replaced by row. *)
WithRow(col, r, row) ==
    IF col.tag = "const" THEN ColumnConst(col.rows, row)
    ELSE LET rows == [k \in 1..Rows(col) |-> IF k = r THEN row ELSE RowOf(col, k)]
         IN ColumnArray(ColumnFromElems(col.data, Flatten(rows)), OffsetsOf(rows))

Swapped(row, p, q) ==
    [k \in 1..Len(row) |-> IF k = p THEN row[q] ELSE IF k = q THEN row[p] ELSE row[k]]

Repeated(row, p) == Append(row, row[p])

(* The arguments as the zipped loop sees them: a constant among several    *)
(* arguments is expanded to one array per row.                             *)
ZippedArgument(a) ==
    IF Len(call.arguments) > 1 /\ block[a].tag = "const" THEN convertToFullColumn(block[a])
    ELSE block[a]

(* The count arrayUniq gives row r once row r of every argument has its    *)
(* positions p and q swapped (repeat = FALSE) or its element p repeated at *)
(* the end (repeat = TRUE).                                                *)
CountAfter(r, p, q, repeat) ==
    LET blk == [a \in 1..3 |->
                   IF a \in Range(call.arguments)
                   THEN LET row == RowOf(ZippedArgument(a), r)
                        IN WithRow(ZippedArgument(a), r,
                                   IF repeat THEN Repeated(row, p) ELSE Swapped(row, p, q))
                   ELSE block[a]]
    IN CountAt(ArrayUniqExecuteImpl(blk, call.arguments, 3).block[3], r)

(* C8: the count of a row does not change when two of its elements are     *)
(* swapped (in all zipped arrays alike), nor when an element it already    *)
(* holds is repeated.                                                      *)
C8_UniqOrderAndMultiplicity ==
    UniqDone("arrayUniq") =>
        \A r \in 1..Rows(block[1]) :
            \A p \in 1..Len(RowOf(block[1], r)) :
                /\ CountAfter(r, p, p, TRUE) = CountAt(block[3], r)
                /\ \A q \in 1..Len(RowOf(block[1], r)) :
                       CountAfter(r, p, q, FALSE) = CountAt(block[3], r)

(* C8 witness: two zipped numeric arrays, packed into 128-bit keys, with a *)
(* row of two equal keys counted once.                                     *)
C8_Witness ==
    /\ UniqDone("arrayUniq") /\ call.arguments = <<1, 2>>
    /\ block[1].tag = "array" /\ block[1].data.tag = "vector"
    /\ \E r \in 1..Rows(block[1]) :
         /\ Len(RowOf(block[1], r)) = 2
         /\ SameAt(call.arguments, r, 1, 2)
         /\ CountAt(block[3], r) = 1

----------------------------------------------------------------------------
(* FunctionArrayReduce::executeImpl, step by step.  agg holds the locals   *)
(* of the call and the aggregate function's side: the states that are      *)
(* live, the contents of the state at place, and the history of the calls  *)
(* made on agg_func.                                                       *)

(* agg_func.create(place): a new, empty state at place.  The variant       *)
(* leaves at place whatever the previous state accumulated.                *)
createOverOldContents(a) ==
    [a EXCEPT !.created = @ + 1,
              !.live = @ \cup {a.created + 1},
              !.at_place = a.created + 1,
              !.events = Append(@, <<"create", a.i>>)]

create(a) ==
    [a EXCEPT !.created = @ + 1,
              !.live = @ \cup {a.created + 1},
              !.at_place = a.created + 1,
              !.place = <<>>,
              !.events = Append(@, <<"create", a.i>>)]

(* Position j lies behind the end of one of the aggregate arguments. *)
BehindArguments(a, j) == \E k \in 1..Len(a.columns) : j + 1 > Len(a.columns[k])

(* What add reads at position j: the element of the only argument, or one  *)
(* element of each argument; a read behind the end of a column yields      *)
(* garbage.                                                                *)
AggregateArgumentsAt(a, j, garbage) ==
    LET at(k) == IF j + 1 <= Len(a.columns[k]) THEN a.columns[k][j + 1] ELSE garbage
    IN IF Len(a.columns) = 1 THEN at(1) ELSE [k \in 1..Len(a.columns) |-> at(k)]

(* agg_func.add(place, aggregate_arguments, j, arena) *)
add(a, j, garbage) ==
    [a EXCEPT !.place = Append(@, AggregateArgumentsAt(a, j, garbage)),
              !.events = Append(@, <<"add", a.i, j>>)]

(* agg_func.insertResultInto(place, res_col) *)
insertResultInto(a) ==
    [a EXCEPT !.res_col = Append(@, a.place),
              !.events = Append(@, <<"insert", a.i>>)]

(* agg_func.destroy(place) *)
destroy(a) ==
    [a EXCEPT !.live = @ \ {a.at_place},
              !.events = Append(@, <<"destroy", a.i>>)]

(* The catch block: destroy the state, then rethrow.  The variant rethrows *)
(* without destroying.                                                     *)
CatchBlockRethrowsOnly(a) == [a EXCEPT !.pc = "done"]

CatchBlock(a) == [destroy(a) EXCEPT !.pc = "done"]

ReduceName == "sum"

ReduceArrays == PlainArrays(MaxRows, MaxElems) \cup ConstArrays(MaxRows, MaxElems)

(* A second array for the calls with two array arguments, kept behind the  *)
(* result slot.                                                            *)
ReduceSecondArrays == PlainArrays(MaxRows, MaxElems)

ReduceArgumentLists == {<<1, 2>>, <<1, 2, 4>>}

GarbageValues == {0, 1}

InitReduce ==
    /\ \E a \in ReduceArrays : \E b \in ReduceSecondArrays :
         /\ Rows(a) = Rows(b)
         /\ block = <<ColumnConst(Rows(a), ReduceName), a, EmptySlot, b>>
    /\ call = NoCall
    /\ error = NoError
    /\ agg = NoAgg

(* The argument loop of executeImpl: constants are materialized. *)
ReduceMaterialized(blk, arguments) ==
    [k \in 1..(Len(arguments) - 1) |->
        IF blk[arguments[k + 1]].tag = "const" THEN convertToFullColumn(blk[arguments[k + 1]])
        ELSE blk[arguments[k + 1]]]

(* The offsets the row loop runs over: those of the first materialized     *)
(* column if there is one, else those of the first array argument.         *)
ReduceOffsets(blk, arguments) ==
    LET consts == {k \in 1..(Len(arguments) - 1) : blk[arguments[k + 1]].tag = "const"}
    IN IF consts # {}
       THEN ReduceMaterialized(blk, arguments)[CHOOSE k \in consts : \A m \in consts : k <= m].offsets
       ELSE blk[arguments[2]].offsets

(* Everything before the row loop: the arguments are materialized and the  *)
(* offsets taken. *)
ReduceEnter ==
    /\ call = NoCall
    /\ \E arguments \in ReduceArgumentLists :
         LET cols == [k \in 1..(Len(arguments) - 1) |-> block[arguments[k + 1]]]
             arrs == ReduceMaterialized(block, arguments)
             rows == BlockRows(block)
         IN /\ IF \E k \in 1..Len(cols) : cols[k].tag # "array" /\ cols[k].tag # "const"
               THEN /\ error' = "ILLEGAL_COLUMN"
                    /\ agg' = [pc |-> "done"]
               ELSE /\ error' = error
                    /\ agg' = [pc |-> IF rows > 0 THEN "create" ELSE "bind",
                               rows |-> rows,
                               offsets |-> ReduceOffsets(block, arguments),
                               columns |-> [k \in 1..Len(arrs) |-> ElemsOf(arrs[k].data)],
                               is_const |-> \A k \in 1..Len(cols) : cols[k].tag = "const",
                               i |-> 0, j |-> 0, current_offset |-> 0, next_offset |-> 0,
                               place |-> <<>>, at_place |-> 0, live |-> {}, created |-> 0,
                               res_col |-> <<>>, events |-> <<>>]
            /\ call' = [fn |-> "arrayReduce", arguments |-> arguments, result |-> 3]
    /\ UNCHANGED block

ReduceCreate ==
    /\ agg.pc = "create"
    /\ agg' = [create(agg) EXCEPT !.pc = "try",
                                  !.next_offset = agg.offsets[agg.i + 1],
                                  !.j = agg.current_offset]
    /\ UNCHANGED <<block, call, error>>

(* One iteration of the inner loop: add returns or throws.  When position *)
(* j lies behind the end of an argument, add reads garbage or the read     *)
(* faults.                                                                 *)
ReduceAdd ==
    /\ agg.pc = "try"
    /\ agg.j < agg.next_offset
    /\ \/ /\ \E throws \in BOOLEAN : \E garbage \in GarbageValues :
                agg' = IF throws THEN [agg EXCEPT !.pc = "catch"]
                       ELSE [add(agg, agg.j, garbage) EXCEPT !.j = @ + 1]
          /\ error' = error
       \/ /\ BehindArguments(agg, agg.j)
          /\ agg' = [agg EXCEPT !.pc = "done"]
          /\ error' = "MEMORY_CORRUPTION"
    /\ UNCHANGED <<block, call>>

(* The read-out after the inner loop: it returns or throws. *)
ReduceInsertResult ==
    /\ agg.pc = "try"
    /\ agg.j >= agg.next_offset
    /\ \E throws \in BOOLEAN :
         agg' = IF throws THEN [agg EXCEPT !.pc = "catch"]
                ELSE [insertResultInto(agg) EXCEPT !.pc = "destroy"]
    /\ UNCHANGED <<block, call, error>>

ReduceCatch ==
    /\ agg.pc = "catch"
    /\ agg' = CatchBlock(agg)
    /\ error' = "AGGREGATE_FUNCTION_THREW"
    /\ UNCHANGED <<block, call>>

(* The end of the loop body: destroy, then step to the next row. *)
ReduceDestroy ==
    /\ agg.pc = "destroy"
    /\ agg' = [destroy(agg) EXCEPT !.current_offset = agg.next_offset,
                                   !.i = @ + 1,
                                   !.pc = IF agg.i + 1 < agg.rows THEN "create" ELSE "bind"]
    /\ UNCHANGED <<block, call, error>>

(* The result is bound after the loop; for constant arguments it is the    *)
(* constant res_col[0], which no row has written when the block is empty.  *)
ReduceBind ==
    /\ agg.pc = "bind"
    /\ agg' = [agg EXCEPT !.pc = "done"]
    /\ IF ~agg.is_const
       THEN /\ block' = [block EXCEPT ![3] = ColumnGeneric(agg.res_col)]
            /\ error' = error
       ELSE IF agg.res_col # <<>>
       THEN /\ block' = [block EXCEPT ![3] = ColumnConst(agg.rows, agg.res_col[1])]
            /\ error' = error
       ELSE \/ /\ block' = [block EXCEPT ![3] = ColumnConst(agg.rows, <<Uninit>>)]
               /\ error' = error
            \/ /\ error' = "MEMORY_CORRUPTION"
               /\ UNCHANGED block
    /\ UNCHANGED call

NextReduce ==
    \/ ReduceEnter
    \/ ReduceCreate
    \/ ReduceAdd
    \/ ReduceInsertResult
    \/ ReduceCatch
    \/ ReduceDestroy
    \/ ReduceBind

SpecReduce == InitReduce /\ [][NextReduce]_vars

ReduceReturned == call.fn = "arrayReduce" /\ agg.pc = "done" /\ error = NoError

(* The calls a complete run makes for the rows i .. rows - 1 (0-based):    *)
(* create, one add per element index in ascending order, read-out, destroy. *)
RECURSIVE LifecycleFrom(_, _, _)
LifecycleFrom(offsets, i, rows) ==
    IF i >= rows THEN <<>>
    ELSE <<<<"create", i>>>>
         \o [k \in 1..(offsets[i + 1] - PrevOffset(offsets, i + 1)) |->
                <<"add", i, PrevOffset(offsets, i + 1) + k - 1>>]
         \o <<<<"insert", i>>, <<"destroy", i>>>>
         \o LifecycleFrom(offsets, i + 1, rows)

IsPrefix(s, t) == Len(s) <= Len(t) /\ s = SubSeq(t, 1, Len(s))

(* The argument of arrayReduce, one array per row. *)
ReduceArgument == IF block[2].tag = "const" THEN convertToFullColumn(block[2]) ELSE block[2]

(* C9: the calls on the aggregate function follow, row after row, the      *)
(* order create, add per element in ascending order, read-out, destroy; at *)
(* most one state is live at any moment; the state of a row starts empty,  *)
(* so its result is made of that row's elements only; and when the call    *)
(* returns every state has been destroyed exactly once and none is live.   *)
C9_ReduceLifecycle ==
    call.fn = "arrayReduce" =>
        /\ Cardinality(agg.live) <= 1
        /\ (error = NoError /\ agg.pc # "catch") =>
               IsPrefix(agg.events, LifecycleFrom(ReduceArgument.offsets, 0, agg.rows))
        /\ Len(call.arguments) = 2 =>
               \A r \in 1..Len(agg.res_col) : agg.res_col[r] = RowOf(ReduceArgument, r)
        /\ ReduceReturned =>
               /\ agg.events = LifecycleFrom(ReduceArgument.offsets, 0, agg.rows)
               /\ agg.live = {}
               /\ agg.created = agg.rows

(* C9 witness: a call over two non-empty rows has returned. *)
C9_Witness ==
    /\ ReduceReturned
    /\ agg.rows = 2
    /\ \A r \in 1..2 : RowOf(ReduceArgument, r) # <<>>
    /\ Len(agg.res_col) = 2

Count(s, e) == Cardinality({k \in 1..Len(s) : s[k] = e})

(* C10: when add or the read-out throws on row i, the error reaches the    *)
(* caller only after destroy has been called, exactly once, on that row's  *)
(* state; no call is made for a later row, no state stays live and no      *)
(* result is bound.                                                        *)
C10_ReduceCleanupOnFailure ==
    (call.fn = "arrayReduce" /\ error = "AGGREGATE_FUNCTION_THREW") =>
        /\ agg.pc = "done"
        /\ agg.live = {}
        /\ agg.events # <<>>
        /\ agg.events[Len(agg.events)] = <<"destroy", agg.i>>
        /\ Count(agg.events, <<"destroy", agg.i>>) = 1
        /\ Count(agg.events, <<"create", agg.i>>) = 1
        /\ \A k \in 1..Len(agg.events) : agg.events[k][2] <= agg.i
        /\ agg.created = agg.i + 1
        /\ block[3] = EmptySlot

(* C10 witness: add threw on the second row after one element of it had    *)
(* been added, and the error has reached the caller.                       *)
C10_Witness ==
    /\ call.fn = "arrayReduce" /\ error = "AGGREGATE_FUNCTION_THREW"
    /\ agg.i = 1
    /\ agg.place # <<>>
    /\ agg.j < agg.next_offset

----------------------------------------------------------------------------
(* FunctionRange.                                                          *)

(* static constexpr size_t max_elements: 100'000'000 in the source, scaled *)
(* here with the sizes of the columns; it stays below SizeModulus, as      *)
(* 100'000'000 stays below 2^64.                                           *)
max_elements == 4

(* std::numeric_limits<size_t>::max() *)
SizeMax == SizeModulus - 1

(* The lambda given to std::accumulate: lhs + rhs in size_t, with the      *)
(* overflow test sum < lhs.                                                *)
RangeAdd(lhs, rhs) ==
    LET sum == ToSize(lhs + rhs)
    IN IF sum < lhs THEN [error |-> "ARGUMENT_OUT_OF_BOUND", sum |-> sum]
       ELSE [error |-> NoError, sum |-> sum]

(* std::accumulate over in_data from size_t{}; the exception leaves it. *)
RECURSIVE RangeAccumulate(_, _, _)
RangeAccumulate(in_data, i, acc) ==
    IF i > Len(in_data) \/ acc.error # NoError THEN acc
    ELSE RangeAccumulate(in_data, i + 1, RangeAdd(acc.sum, in_data[i]))

(* The inner loop: out_data[offset + elem_idx] = elem_idx. *)
RECURSIVE RangeElemLoop(_, _, _, _)
RangeElemLoop(out_data, offset, elem_idx, elems) ==
    IF elem_idx >= elems THEN out_data
    ELSE RangeElemLoop(Store(out_data, offset + elem_idx, elem_idx), offset, elem_idx + 1, elems)

(* The row loop.  The variant does not advance offset by the row's length. *)
RECURSIVE RangeRowLoopKeepsOffset(_, _, _, _)
RangeRowLoopKeepsOffset(in_data, row_idx, offset, out) ==
    IF row_idx >= Len(in_data) THEN out
    ELSE RangeRowLoopKeepsOffset(in_data, row_idx + 1, offset,
            [out_data |-> RangeElemLoop(out.out_data, offset, 0, in_data[row_idx + 1]),
             out_offsets |-> Store(out.out_offsets, row_idx, offset + in_data[row_idx + 1])])

RECURSIVE RangeRowLoop(_, _, _, _)
RangeRowLoop(in_data, row_idx, offset, out) ==
    IF row_idx >= Len(in_data) THEN out
    ELSE RangeRowLoop(in_data, row_idx + 1, offset + in_data[row_idx + 1],
            [out_data |-> RangeElemLoop(out.out_data, offset, 0, in_data[row_idx + 1]),
             out_offsets |-> Store(out.out_offsets, row_idx, offset + in_data[row_idx + 1])])

(* The allocation of data_col and out and both loops: the result column. *)
RangeFill(in_data, total_values) ==
    LET out == RangeRowLoop(in_data, 0, 0,
                            [out_data |-> UninitSeq(total_values),
                             out_offsets |-> UninitSeq(Len(in_data))])
    IN ColumnArray(ColumnVector(out.out_data), out.out_offsets)

(* total_values > max_elements, preceded by the variant that also rejects  *)
(* the ceiling itself.                                                     *)
ExceedsMaxElementsOrEqual(total_values) == total_values >= max_elements

ExceedsMaxElements(total_values) == total_values > max_elements

RangeThrow(blk) == [handled |-> TRUE, block |-> blk, error |-> "ARGUMENT_OUT_OF_BOUND", allocated |-> FALSE]

(* FunctionRange::executeInternal<T>: allocated tells whether data_col was *)
(* made.                                                                   *)
RangeExecuteInternal(blk, arg, result) ==
    CASE arg.tag = "vector" ->
             LET acc == RangeAccumulate(arg.data, 1, [error |-> NoError, sum |-> 0])
             IN IF acc.error # NoError THEN RangeThrow(blk)
                ELSE IF ExceedsMaxElements(acc.sum) THEN RangeThrow(blk)
                ELSE [handled |-> TRUE, error |-> NoError, allocated |-> TRUE,
                      block |-> [blk EXCEPT ![result] = RangeFill(arg.data, acc.sum)]]
      [] arg.tag = "const" ->
             LET in_data == arg.value.value
                 size == arg.rows
             IN IF in_data # 0 /\ size > SizeMax \div in_data THEN RangeThrow(blk)
                ELSE IF ExceedsMaxElements(size * in_data) THEN RangeThrow(blk)
                ELSE [handled |-> TRUE, error |-> NoError, allocated |-> TRUE,
                      block |-> [blk EXCEPT ![result] =
                                    RangeFill([r \in 1..size |-> in_data], size * in_data)]]
      [] OTHER -> [handled |-> FALSE, block |-> blk, error |-> NoError, allocated |-> FALSE]

(* FunctionRange::executeImpl *)
RangeExecuteImpl(blk, arguments, result) ==
    LET r == RangeExecuteInternal(blk, blk[arguments[1]], result)
    IN IF r.handled THEN r ELSE [r EXCEPT !.error = "ILLEGAL_COLUMN"]

----------------------------------------------------------------------------
(* Specification of range: block = <<N, R>>.                               *)

(* Row bounds: small ones, the ceiling and its neighbours, and the largest *)
(* values of the size type.                                                *)
RangeValues ==
    0..(max_elements + 1) \cup {SizeMax - 1, SizeMax}

RangeColumns ==
    {ColumnVector(d) : d \in SeqsUpTo(RangeValues, MaxRows)}
    \cup {ColumnConst(r, FieldUInt64(v)) : r \in 0..MaxRows, v \in RangeValues}
    \cup {ColumnNullable(ColumnVector(<<1>>), <<0>>)}

InitRange ==
    /\ \E n \in RangeColumns : block = <<n, EmptySlot>>
    /\ call = NoCall
    /\ error = NoError
    /\ agg = NoAgg

FunctionRange ==
    /\ call = NoCall
    /\ LET o == RangeExecuteImpl(block, <<1>>, 2)
       IN /\ \E r \in ResolveColumn(o.block[2]) : block' = [o.block EXCEPT ![2] = r]
          /\ error' = o.error
          /\ call' = [fn |-> "range", arguments |-> <<1>>, result |-> 2, allocated |-> o.allocated]
    /\ UNCHANGED agg

NextRange == FunctionRange

SpecRange == InitRange /\ [][NextRange]_vars

(* The per-row bounds of the argument of range. *)
RangeBounds ==
    IF block[1].tag = "const" THEN [r \in 1..block[1].rows |-> block[1].value.value]
    ELSE block[1].data

RangeDone == call.fn = "range" /\ block[1].tag # "nullable"

(* C11: range fails with ArgumentOutOfBound exactly when the sum of the    *)
(* bounds does not fit the size type or exceeds max_elements, so a total   *)
(* of exactly max_elements is accepted; and when it fails the data buffer  *)
(* has not been allocated and nothing is bound.                            *)
C11_RangeGuards ==
    RangeDone =>
        /\ error = "ARGUMENT_OUT_OF_BOUND" <=>
               (SeqSum(RangeBounds) > SizeMax \/ SeqSum(RangeBounds) > max_elements)
        /\ error = "ARGUMENT_OUT_OF_BOUND" => (~call.allocated /\ block[2] = EmptySlot)
        /\ error # "ARGUMENT_OUT_OF_BOUND" => (error = NoError /\ call.allocated)

(* C11 witness: a varying column whose running sum overflows to a total    *)
(* not above max_elements, rejected.                                       *)
C11_Witness ==
    /\ RangeDone /\ block[1].tag = "vector"
    /\ SeqSum(RangeBounds) > SizeMax
    /\ ToSize(SeqSum(RangeBounds)) <= max_elements
    /\ error = "ARGUMENT_OUT_OF_BOUND"

(* C12: when range succeeds, row i is 0, 1, ..., n_i - 1, the offset of    *)
(* row i is n_1 + ... + n_i and the data ends at the last offset.          *)
C12_RangeContent ==
    (RangeDone /\ error = NoError) =>
        /\ block[2].tag = "array"
        /\ Rows(block[2]) = Len(RangeBounds)
        /\ Len(block[2].data.data) = DataSize(block[2].offsets)
        /\ \A i \in 1..Len(RangeBounds) :
             /\ block[2].offsets[i] = SeqSum(SubSeq(RangeBounds, 1, i))
             /\ RowOf(block[2], i) = [k \in 1..RangeBounds[i] |-> k - 1]

(* C12 witness: two non-empty rows, the second longer than one element,    *)
(* have been produced.                                                     *)
C12_Witness ==
    /\ RangeDone /\ error = NoError
    /\ Len(RangeBounds) >= 2
    /\ RangeBounds[1] >= 1 /\ RangeBounds[2] >= 2

(* A call of arrayUniq or arrayEnumerateUniq over the two zipped arrays. *)
ZippedUniqCall ==
    call.fn \in {"arrayUniq", "arrayEnumerateUniq"} /\ call.arguments = <<1, 2>>

(* Some row has different lengths in the two arguments, a constant being   *)
(* the same array in every row.                                            *)
RowLengthsDiffer(a, b) ==
    \E r \in 1..Rows(block[a]) : Len(RowOf(block[a], r)) # Len(RowOf(block[b], r))

(* C13: over two zipped arrays arrayUniq and arrayEnumerateUniq fail with  *)
(* SIZES_OF_ARRAYS_DOESNT_MATCH exactly when some row has different        *)
(* lengths in the two arrays, and then nothing has been computed or bound. *)
C13_ZippedLengthCheck ==
    ZippedUniqCall =>
        /\ error = "SIZES_OF_ARRAYS_DOESNT_MATCH" <=> RowLengthsDiffer(1, 2)
        /\ error = "SIZES_OF_ARRAYS_DOESNT_MATCH" => block[3] = EmptySlot
        /\ error # "SIZES_OF_ARRAYS_DOESNT_MATCH" => error = NoError

(* C13 witness: two varying arrays with as many elements in all but        *)
(* different row lengths, rejected.                                        *)
C13_Witness ==
    /\ ZippedUniqCall
    /\ block[1].tag = "array"
    /\ DataSize(block[1].offsets) = DataSize(block[2].offsets)
    /\ RowLengthsDiffer(1, 2)
    /\ error = "SIZES_OF_ARRAYS_DOESNT_MATCH"

(* C14: arrayReduce over two arrays whose rows differ in length fails with *)
(* SIZES_OF_ARRAYS_DOESNT_MATCH.                                           *)
C14_ZippedReduceLengthCheck ==
    (call.fn = "arrayReduce" /\ call.arguments = <<1, 2, 4>> /\ agg.pc = "done"
         /\ RowLengthsDiffer(2, 4)) =>
        error = "SIZES_OF_ARRAYS_DOESNT_MATCH"

----------------------------------------------------------------------------
(* Calls over arrays whose element type has no specialisation: the single  *)
(* argument is an array of numbers, strings, fixed strings or of a type    *)
(* none of the execute* routines casts to; block = <<A, R>>.               *)

UnsupportedKinds == {"vector", "string", "fixed", "generic"}

UnsupportedArrays ==
    {AsKind(a, kind) : a \in PlainArrays(MaxRows, MaxElems) \cup NullableArrays(MaxRows, MaxElems),
                       kind \in UnsupportedKinds}

InitUnsupported ==
    /\ \E a \in UnsupportedArrays : block = <<a, EmptySlot>>
    /\ call = NoCall
    /\ error = NoError
    /\ agg = NoAgg

UnsupportedCall(fn, o) ==
    /\ \E r \in ResolveColumn(o.block[2]) : block' = [o.block EXCEPT ![2] = r]
    /\ error' = o.error
    /\ call' = [fn |-> fn, arguments |-> <<1>>, result |-> 2]
    /\ UNCHANGED agg

ReverseUnsupported == call = NoCall /\ ArrayReverse(1, 2)

UniqUnsupported ==
    /\ call = NoCall
    /\ UnsupportedCall("arrayUniq", ArrayUniqExecuteImpl(block, <<1>>, 2))

EnumerateUniqUnsupported ==
    /\ call = NoCall
    /\ UnsupportedCall("arrayEnumerateUniq", ArrayEnumerateUniqExecuteImpl(block, <<1>>, 2))

NextUnsupported == ReverseUnsupported \/ UniqUnsupported \/ EnumerateUniqUnsupported

SpecUnsupported == InitUnsupported /\ [][NextUnsupported]_vars

(* C15: whenever the execute call of an array operation fails, the result  *)
(* slot is left as it was before the call: nothing is bound to it.         *)
C15_NoPartialResultOnError ==
    (call # NoCall /\ error # NoError) => block[call.result] = EmptySlot

----------------------------------------------------------------------------
(* Array sources and sinks, and the slice and concat routines over them.   *)

(* The column of a NULL literal. *)
ColumnNull(rows) == [tag |-> "null", rows |-> rows]

(* IColumn::isNull(). *)
isNull(col) == col.tag = "null"

(* IColumn::isConst(). *)
isConst(col) == col.tag = "const"

(* ColumnConst::getDataColumnPtr() of a constant array: the one-row array  *)
(* column the constant wraps.                                              *)
getDataColumnPtr(col) == convertToFullColumn(ColumnConst(1, col.value))

(* A value of type size_t read as ssize_t. *)
ToSSize(x) == IF ToSize(x) >= SizeModulus \div 2 THEN ToSize(x) - SizeModulus ELSE ToSize(x)

(* IColumn::getInt(n) of a column of numbers, constant or not. *)
getInt(col, n) ==
    CASE col.tag = "const" -> col.value.value
      [] col.tag = "nullable" -> col.nested.data[n + 1]
      [] OTHER -> col.data[n + 1]

(* IColumn::getUInt(n): the same value as an unsigned 64-bit number. *)
getUInt(col, n) == ToSize(getInt(col, n))

(* Whether row n of an offset or length column holds a value. *)
hasValue(col, n) == ~(col.tag = "nullable" /\ col.null_map[n + 1] = 1)

MinOf(a, b) == IF a < b THEN a ELSE b

(* createArraySource: a cursor over size rows; a constant source gives its *)
(* one row for every row number.                                           *)
createArraySource(array, is_const, size) ==
    [rows |-> [r \in 1..size |-> RowOf(array, IF is_const THEN 1 ELSE r)],
     nested |-> array.data]

(* The rows of a source with nullable elements. *)
NullableRow(nested, row) ==
    IF isNullable(nested) THEN row ELSE [k \in 1..Len(row) |-> [v |-> row[k], null |-> 0]]

(* The column a sink has written once rows were appended to it. *)
SinkColumn(nested, rows) == ColumnArray(ColumnFromElems(nested, Flatten(rows)), OffsetsOf(rows))

(* Source::getSliceFromLeft(offset) and getSliceFromLeft(offset, length). *)
getSliceFromLeft(row, offset) == SubSeq(row, offset + 1, Len(row))

getSliceFromLeftBounded(row, offset, length) ==
    SubSeq(row, offset + 1, MinOf(Len(row), offset + length))

(* Source::getSliceFromRight(offset) and getSliceFromRight(offset, length):*)
(* an offset behind the row start begins at the row start.                 *)
getSliceFromRight(row, offset) ==
    IF offset > Len(row) THEN row ELSE SubSeq(row, Len(row) - offset + 1, Len(row))

getSliceFromRightBounded(row, offset, length) ==
    IF offset > Len(row)
    THEN SubSeq(row, 1, IF length + Len(row) > offset
                        THEN MinOf(Len(row), length + Len(row) - offset) ELSE 0)
    ELSE SubSeq(row, Len(row) - offset + 1, Len(row) - offset + MinOf(length, offset))

sliceFromLeftConstantOffsetUnbounded(src, offset) ==
    [r \in 1..Len(src.rows) |-> getSliceFromLeft(src.rows[r], offset)]

sliceFromLeftConstantOffsetBounded(src, offset, length) ==
    [r \in 1..Len(src.rows) |->
        LET size == IF length < 0 THEN length + Len(src.rows[r]) - offset ELSE length
        IN IF size > 0 THEN getSliceFromLeftBounded(src.rows[r], offset, size) ELSE <<>>]

sliceFromRightConstantOffsetUnbounded(src, offset) ==
    [r \in 1..Len(src.rows) |-> getSliceFromRight(src.rows[r], offset)]

sliceFromRightConstantOffsetBounded(src, offset, length) ==
    [r \in 1..Len(src.rows) |->
        LET size == IF length < 0 THEN length + offset ELSE length
        IN IF size > 0 THEN getSliceFromRightBounded(src.rows[r], offset, size) ELSE <<>>]

sliceDynamicOffsetUnbounded(src, offset_column) ==
    [r \in 1..Len(src.rows) |->
        LET offset == IF hasValue(offset_column, r - 1) THEN getInt(offset_column, r - 1) ELSE 1
        IN IF offset = 0 THEN <<>>
           ELSE IF offset > 0 THEN getSliceFromLeft(src.rows[r], offset - 1)
           ELSE getSliceFromRight(src.rows[r], -offset)]

sliceDynamicOffsetBounded(src, offset_column, length_column) ==
    [r \in 1..Len(src.rows) |->
        LET offset == IF hasValue(offset_column, r - 1) THEN getInt(offset_column, r - 1) ELSE 1
            length == IF hasValue(length_column, r - 1) THEN getInt(length_column, r - 1) ELSE 0
            size == IF length < 0
                    THEN length + (IF offset > 0 THEN Len(src.rows[r]) - (offset - 1) ELSE -offset)
                    ELSE length
        IN IF ~hasValue(length_column, r - 1)
           THEN sliceDynamicOffsetUnbounded(src, offset_column)[r]
           ELSE IF offset = 0 \/ size <= 0 THEN <<>>
           ELSE IF offset > 0 THEN getSliceFromLeftBounded(src.rows[r], offset - 1, size)
           ELSE getSliceFromRightBounded(src.rows[r], -offset, size)]

(* concat: row r of the sink is row r of every source, one after another. *)
concat(sources, size) ==
    [r \in 1..size |-> Flatten([k \in 1..Len(sources) |-> sources[k].rows[r]])]

----------------------------------------------------------------------------
(* FunctionArraySlice and FunctionArrayPop.                                *)

(* return_type->createColumn(): the empty array column bound to the result *)
(* slot on entry.                                                          *)
createColumn == ColumnArray(ColumnVector(<<>>), <<>>)

(* The variant of the offset conversion that keeps the 1-based offset. *)
LeftOffsetOneBased(offset) == ToSize(offset)

(* static_cast<size_t>(offset - 1) and static_cast<size_t>(-offset). *)
LeftOffset(offset) == ToSize(offset - 1)

RightOffset(offset) == ToSize(-offset)

ArraySliceExecuteImpl(blk, arguments, result) ==
    LET array_column == blk[arguments[1]]
        offset_column == blk[arguments[2]]
        no_length == Len(arguments) <= 2 \/ isNull(blk[arguments[3]])
        length_column == blk[arguments[IF Len(arguments) > 2 THEN 3 ELSE 2]]
        size == Rows(array_column)
        is_const == isConst(array_column)
        unwrapped == IF is_const THEN getDataColumnPtr(array_column) ELSE array_column
        bind(c) == [block |-> [blk EXCEPT ![result] = c], error |-> NoError]
    IN IF isNull(array_column) THEN bind(array_column)
       ELSE IF unwrapped.tag # "array"
       THEN [block |-> [blk EXCEPT ![result] = createColumn], error |-> "LOGICAL_ERROR"]
       ELSE LET source == createArraySource(unwrapped, is_const, size)
                sink(rows) == bind(SinkColumn(unwrapped.data, rows))
            IN IF isNull(offset_column)
               THEN IF no_length THEN bind(unwrapped)
                    ELSE IF isConst(length_column)
                    THEN sink(sliceFromLeftConstantOffsetBounded(source, 0, getInt(length_column, 0)))
                    ELSE sink(sliceDynamicOffsetBounded(source,
                                  ColumnConst(size, FieldInt64(1)), length_column))
               ELSE IF isConst(offset_column)
               THEN LET offset == ToSSize(getUInt(offset_column, 0))
                    IN IF no_length
                       THEN IF offset > 0
                            THEN sink(sliceFromLeftConstantOffsetUnbounded(source, LeftOffset(offset)))
                            ELSE sink(sliceFromRightConstantOffsetUnbounded(source, RightOffset(offset)))
                       ELSE IF isConst(length_column)
                       THEN LET length == getInt(length_column, 0)
                            IN IF offset > 0
                               THEN sink(sliceFromLeftConstantOffsetBounded(source,
                                              LeftOffset(offset), length))
                               ELSE sink(sliceFromRightConstantOffsetBounded(source,
                                              RightOffset(offset), length))
                       ELSE sink(sliceDynamicOffsetBounded(source, offset_column, length_column))
               ELSE IF no_length THEN sink(sliceDynamicOffsetUnbounded(source, offset_column))
                    ELSE sink(sliceDynamicOffsetBounded(source, offset_column, length_column))

(* The variant of arrayPopBack that cuts the row after its first element. *)
PopBackKeepsOne(source) == sliceFromLeftConstantOffsetBounded(source, 0, 1)

(* arrayPopBack: sliceFromLeftConstantOffsetBounded with offset 0 and      *)
(* length -1.                                                              *)
PopBack(source) == sliceFromLeftConstantOffsetBounded(source, 0, -1)

(* arrayPopFront: sliceFromLeftConstantOffsetUnbounded with offset 1. *)
PopFront(source) == sliceFromLeftConstantOffsetUnbounded(source, 1)

ArrayPopExecuteImpl(blk, arguments, result, pop_front) ==
    LET array_column == blk[arguments[1]]
        size == Rows(array_column)
        is_const == isConst(array_column)
        unwrapped == IF is_const THEN getDataColumnPtr(array_column) ELSE array_column
        bind(c) == [block |-> [blk EXCEPT ![result] = c], error |-> NoError]
    IN IF isNull(array_column) THEN bind(array_column)
       ELSE IF unwrapped.tag # "array"
       THEN [block |-> [blk EXCEPT ![result] = createColumn], error |-> "LOGICAL_ERROR"]
       ELSE LET source == createArraySource(unwrapped, is_const, size)
            IN bind(SinkColumn(unwrapped.data,
                               IF pop_front THEN PopFront(source) ELSE PopBack(source)))

----------------------------------------------------------------------------
(* Specification of arraySlice followed by the same slice through the      *)
(* dynamic routine, or by arrayPopFront or arrayPopBack:                   *)
(* block = <<A, offset, length, R1, R2>>; an empty third slot is a call    *)
(* without a length.                                                       *)

SliceOffsets == -2..2

SliceLengths == -2..2

(* The values the per-row offset and length columns mix. *)
DynamicOffsets == {-1, 2}

DynamicLengths == {-1, 1}

NumberColumns(rows, constants, values) ==
    {ColumnConst(rows, FieldInt64(v)) : v \in constants}
    \cup {ColumnVector(d) : d \in [1..rows -> values]}

SliceArrays ==
    PlainArrays(MaxRows, MaxElems) \cup NullableArrays(MaxRows, MaxElems)
    \cup ConstArrays(MaxRows, MaxElems)

InitSlice ==
    /\ \E a \in SliceArrays :
         \E o \in {ColumnNull(Rows(a))} \cup NumberColumns(Rows(a), SliceOffsets, DynamicOffsets) :
           \E l \in {EmptySlot, ColumnNull(Rows(a))} \cup NumberColumns(Rows(a), SliceLengths, DynamicLengths) :
             block = <<a, o, l, EmptySlot, EmptySlot>>
    /\ call = NoCall
    /\ error = NoError
    /\ agg = NoAgg

SliceArguments(blk) == IF blk[3] = EmptySlot THEN <<1, 2>> ELSE <<1, 2, 3>>

ArraySlice ==
    /\ call = NoCall
    /\ LET o == ArraySliceExecuteImpl(block, SliceArguments(block), 4)
       IN block' = o.block /\ error' = o.error
    /\ call' = [fn |-> "arraySlice", arguments |-> SliceArguments(block), result |-> 4]
    /\ UNCHANGED agg

(* The values of an offset or length column as a column with one entry per *)
(* row; an absent or NULL argument has no value in any row.                *)
PerRow(col, size) ==
    CASE col.tag = "const" -> ColumnVector([r \in 1..size |-> col.value.value])
      [] col.tag = "vector" -> col
      [] OTHER -> ColumnNullable(ColumnVector([r \in 1..size |-> 0]), [r \in 1..size |-> 1])

(* arraySlice over the same array with per-row offsets and lengths: the    *)
(* call that selects sliceDynamicOffsetBounded.                            *)
ArraySliceDynamic ==
    /\ call.fn = "arraySlice" /\ call.result = 4 /\ error = NoError
    /\ LET size == Rows(block[1])
           per_row == [block EXCEPT ![2] = PerRow(block[2], size), ![3] = PerRow(block[3], size)]
           o == ArraySliceExecuteImpl(per_row, <<1, 2, 3>>, 5)
       IN block' = [block EXCEPT ![5] = o.block[5]] /\ error' = o.error
    /\ call' = [fn |-> "arraySlice", arguments |-> <<1, 2, 3>>, result |-> 5]
    /\ UNCHANGED agg

ArrayPop ==
    /\ call.fn = "arraySlice" /\ call.result = 4 /\ error = NoError
    /\ \E pop_front \in BOOLEAN :
         LET o == ArrayPopExecuteImpl(block, <<1>>, 5, pop_front)
         IN /\ block' = o.block /\ error' = o.error
            /\ call' = [fn |-> IF pop_front THEN "arrayPopFront" ELSE "arrayPopBack",
                        arguments |-> <<1>>, result |-> 5]
    /\ UNCHANGED agg

NextSlice == ArraySlice \/ ArraySliceDynamic \/ ArrayPop

SpecSlice == InitSlice /\ [][NextSlice]_vars

(* An array argument with one entry per row. *)
FullColumn(col) == IF isConst(col) THEN convertToFullColumn(col) ELSE col

(* The preceding call was arraySlice(A, offset) with a constant offset and *)
(* no length, or arraySlice(A, offset, length) with both constant.         *)
SlicedFrom(offset) ==
    block[2] = ColumnConst(Rows(block[1]), FieldInt64(offset)) /\ block[3] = EmptySlot

SlicedFromBy(offset, length) ==
    /\ block[2] = ColumnConst(Rows(block[1]), FieldInt64(offset))
    /\ block[3] = ColumnConst(Rows(block[1]), FieldInt64(length))

(* C16: arrayPopFront(A) is arraySlice(A, 2) and arrayPopBack(A) is        *)
(* arraySlice(A, 1, -1); a row of length len >= 1 becomes a row of length  *)
(* len - 1 without its first, respectively last, element.                  *)
C16_PopIsSlice ==
    LET A == FullColumn(block[1])
    IN /\ call.fn = "arrayPopFront" =>
            /\ error = NoError
            /\ SlicedFrom(2) => block[5] = block[4]
            /\ \A r \in 1..Rows(A) :
                 Len(RowOf(A, r)) >= 1 => RowOf(block[5], r) = Tail(RowOf(A, r))
       /\ call.fn = "arrayPopBack" =>
            /\ error = NoError
            /\ SlicedFromBy(1, -1) => block[5] = block[4]
            /\ \A r \in 1..Rows(A) :
                 Len(RowOf(A, r)) >= 1 =>
                     RowOf(block[5], r) = SubSeq(RowOf(A, r), 1, Len(RowOf(A, r)) - 1)

C16_Witness ==
    /\ call.fn = "arrayPopBack"
    /\ SlicedFromBy(1, -1)
    /\ Rows(block[5]) = 2
    /\ Len(RowOf(block[1], 1)) = 2
    /\ Len(RowOf(block[5], 1)) = 1

(* C19: whichever routine arraySlice selects, the result has the rows the  *)
(* dynamic routine gives for the same offsets and lengths held per row.    *)
C19_SliceSpecialisationsAgree ==
    (call.fn = "arraySlice" /\ call.result = 5) => block[5] = block[4]

----------------------------------------------------------------------------
(* FunctionArrayPush: arrayPushBack and arrayPushFront.                    *)

(* ColumnConst::getDataColumnPtr() of a constant number: the one-row       *)
(* column the constant wraps.                                              *)
getNumberDataColumnPtr(col) ==
    IF col.value = FieldNull THEN ColumnNullable(ColumnVector(<<0>>), <<1>>)
    ELSE ColumnVector(<<col.value.value>>)

(* The variant of the synthetic offsets that starts at 0. *)
AppendedOffsetsFromZero(n) == [i \in 1..n |-> i - 1]

(* offsets->getElement(i) = i + 1 for i in 0..size-1 *)
AppendedOffsets(n) == [i \in 1..n |-> (i - 1) + 1]

(* A source whose rows hold nullable elements when the result does. *)
SourceAs(result_nullable, array, is_const, size) ==
    LET src == createArraySource(array, is_const, size)
    IN IF result_nullable
       THEN [rows |-> [r \in 1..size |-> NullableRow(array.data, src.rows[r])],
             nested |-> IF isNullable(array.data) THEN array.data
                        ELSE ColumnNullable(array.data, <<>>)]
       ELSE src

ArrayPushExecuteImpl(blk, arguments, result, push_front) ==
    LET array_column == blk[arguments[1]]
        appended_column == blk[arguments[2]]
        size == Rows(array_column)
        is_const == isConst(array_column)
        unwrapped == IF is_const THEN getDataColumnPtr(array_column) ELSE array_column
        is_appended_const == isConst(appended_column)
        appended == IF is_appended_const THEN getNumberDataColumnPtr(appended_column)
                    ELSE appended_column
        bind(c) == [block |-> [blk EXCEPT ![result] = c], error |-> NoError]
    IN IF isNull(array_column) THEN bind(array_column)
       ELSE IF unwrapped.tag # "array"
       THEN [block |-> [blk EXCEPT ![result] = createColumn], error |-> "LOGICAL_ERROR"]
       ELSE LET result_nullable == isNullable(unwrapped.data) \/ isNullable(appended)
                appended_array_column == ColumnArray(appended, AppendedOffsets(Rows(appended)))
                first == SourceAs(result_nullable, unwrapped, is_const, size)
                second == SourceAs(result_nullable, appended_array_column, is_appended_const, size)
                sources == IF push_front THEN <<second, first>> ELSE <<first, second>>
            IN bind(SinkColumn(first.nested, concat(sources, size)))

----------------------------------------------------------------------------
(* Specification of arrayPushBack and arrayPushFront: block = <<A, V, R>>. *)

PushArrays ==
    PlainArrays(MaxRows, MaxElems) \cup NullableArrays(MaxRows, MaxElems)
    \cup ConstArrays(MaxRows, MaxElems)

AppendedColumns(rows) ==
    {ColumnVector(d) : d \in [1..rows -> NumValues]}
    \cup {ColumnNullable(ColumnVector([k \in 1..rows |-> e[k][1]]), [k \in 1..rows |-> e[k][2]])
          : e \in [1..rows -> NullableElems]}
    \cup {ColumnConst(rows, f) : f \in ConstFields}

InitPush ==
    /\ \E a \in PushArrays : \E v \in AppendedColumns(Rows(a)) : block = <<a, v, EmptySlot>>
    /\ call = NoCall
    /\ error = NoError
    /\ agg = NoAgg

ArrayPush(fn, push_front) ==
    /\ LET o == ArrayPushExecuteImpl(block, <<1, 2>>, 3, push_front)
       IN block' = o.block /\ error' = o.error
    /\ call' = [fn |-> fn, arguments |-> <<1, 2>>, result |-> 3]
    /\ UNCHANGED agg

ArrayPushBack == call = NoCall /\ ArrayPush("arrayPushBack", FALSE)

ArrayPushFront == call = NoCall /\ ArrayPush("arrayPushFront", TRUE)

NextPush == ArrayPushBack \/ ArrayPushFront

SpecPush == InitPush /\ [][NextPush]_vars

(* The element of row r of the appended column, and a row of an array, as  *)
(* the result holds them: with a null flag if the result is nullable.      *)
PushNullable ==
    \/ isNullable(FullColumn(block[1]).data)
    \/ isNullable(block[2])
    \/ (isConst(block[2]) /\ block[2].value = FieldNull)

AppendedItem(r) ==
    LET V == block[2]
        v == CASE isConst(V) -> V.value.value
               [] isNullable(V) -> V.nested.data[r]
               [] OTHER -> V.data[r]
        null == CASE isConst(V) -> IF V.value = FieldNull THEN 1 ELSE 0
                  [] isNullable(V) -> V.null_map[r]
                  [] OTHER -> 0
    IN IF PushNullable THEN [v |-> v, null |-> null] ELSE v

OriginalRow(r) ==
    LET A == FullColumn(block[1])
    IN IF PushNullable THEN NullableRow(A.data, RowOf(A, r)) ELSE RowOf(A, r)

(* C17: arrayPushBack gives every row followed by the appended value of    *)
(* its row, arrayPushFront the appended value followed by the row; the     *)
(* result has one row per row of the array.                                *)
C17_Push ==
    call.fn \in {"arrayPushBack", "arrayPushFront"} =>
        /\ error = NoError
        /\ Rows(block[3]) = Rows(block[1])
        /\ \A r \in 1..Rows(block[1]) :
             RowOf(block[3], r) = IF call.fn = "arrayPushBack"
                                  THEN OriginalRow(r) \o <<AppendedItem(r)>>
                                  ELSE <<AppendedItem(r)>> \o OriginalRow(r)

C17_Witness ==
    /\ call.fn = "arrayPushFront"
    /\ Rows(block[1]) = 2
    /\ ~isConst(block[2])
    /\ RowOf(block[3], 1) = <<2, 1>>
    /\ RowOf(block[3], 2) = <<1>>

----------------------------------------------------------------------------
(* FunctionArrayConcat.                                                    *)

(* The array an argument of arrayConcat holds: a constant's data column,   *)
(* else the column itself.                                                 *)
ConcatArgument(col) == IF isConst(col) THEN getDataColumnPtr(col) ELSE col

ArrayConcatExecuteImpl(blk, arguments, result) ==
    LET size == Rows(blk[arguments[Len(arguments)]])
        arrays == [k \in 1..Len(arguments) |-> ConcatArgument(blk[arguments[k]])]
        result_nullable == \E k \in 1..Len(arrays) : isNullable(arrays[k].data)
        sources == [k \in 1..Len(arguments) |->
                       SourceAs(result_nullable, arrays[k], isConst(blk[arguments[k]]),
                                Rows(blk[arguments[k]]))]
    IN IF \E k \in 1..Len(arrays) : arrays[k].tag # "array"
       THEN [block |-> [blk EXCEPT ![result] = createColumn], error |-> "LOGICAL_ERROR"]
       ELSE [block |-> [blk EXCEPT ![result] = SinkColumn(sources[1].nested, concat(sources, size))],
             error |-> NoError]

----------------------------------------------------------------------------
(* Specification of splitting an array at n and joining the two parts:     *)
(* block = <<A, 1, n, n + 1, R1, R2, R3>> with R1 = arraySlice(A, 1, n),   *)
(* R2 = arraySlice(A, n + 1) and R3 = arrayConcat(R1, R2).                 *)

SplitPoints == -1..MaxElems

PlusOne(col) ==
    IF isConst(col) THEN ColumnConst(col.rows, FieldInt64(col.value.value + 1))
    ELSE ColumnVector([r \in 1..Len(col.data) |-> col.data[r] + 1])

InitSplit ==
    /\ \E a \in SliceArrays : \E n \in NumberColumns(Rows(a), SplitPoints, SplitPoints) :
         block = <<a, ColumnConst(Rows(a), FieldInt64(1)), n, PlusOne(n),
                   EmptySlot, EmptySlot, EmptySlot>>
    /\ call = NoCall
    /\ error = NoError
    /\ agg = NoAgg

SplitCall(fn, arguments, result, o) ==
    /\ block' = o.block
    /\ error' = o.error
    /\ call' = [fn |-> fn, arguments |-> arguments, result |-> result]
    /\ UNCHANGED agg

SplitHead ==
    /\ call = NoCall
    /\ SplitCall("arraySlice", <<1, 2, 3>>, 5, ArraySliceExecuteImpl(block, <<1, 2, 3>>, 5))

SplitTail ==
    /\ call.result = 5 /\ error = NoError
    /\ SplitCall("arraySlice", <<1, 4>>, 6, ArraySliceExecuteImpl(block, <<1, 4>>, 6))

SplitConcat ==
    /\ call.result = 6 /\ error = NoError
    /\ SplitCall("arrayConcat", <<5, 6>>, 7, ArrayConcatExecuteImpl(block, <<5, 6>>, 7))

NextSplit == SplitHead \/ SplitTail \/ SplitConcat

SpecSplit == InitSplit /\ [][NextSplit]_vars

(* n is a valid split point of every row: 1 <= n <= row length. *)
ValidSplit ==
    \A r \in 1..Rows(block[1]) :
        /\ 1 <= getInt(block[3], r - 1)
        /\ getInt(block[3], r - 1) <= Len(RowOf(block[1], r))

(* C18: for a valid split point n, arraySlice(A, 1, n) joined with         *)
(* arraySlice(A, n + 1) is A again: offsets, values and null bitmap.       *)
C18_SplitAndRejoin ==
    call.fn = "arrayConcat" =>
        /\ error = NoError
        /\ ValidSplit => block[7] = FullColumn(block[1])

C18_Witness ==
    /\ call.fn = "arrayConcat"
    /\ ValidSplit
    /\ Rows(block[1]) = 1
    /\ isNullable(block[1].data)
    /\ Len(RowOf(block[5], 1)) = 1
    /\ Len(RowOf(block[6], 1)) = 1
    /\ block[7] = block[1]

(* The element column of the argument, under its null overlay if any. *)
InnerColumn(col) == IF isNullable(col.data) THEN col.data.nested ELSE col.data

(* C21: arrayReverse over an array whose elements are neither numbers,     *)
(* strings nor fixed strings succeeds and reverses every row.              *)
C21_ReverseGenericFallback ==
    (call.fn = "arrayReverse" /\ InnerColumn(block[1]).tag = "generic") =>
        /\ error = NoError
        /\ block[2].tag = "array"
        /\ Rows(block[2]) = Rows(block[1])
        /\ \A r \in 1..Rows(block[1]) : RowOf(block[2], r) = ReverseSeq(RowOf(block[1], r))

(* C22: a constant array with a constant non-zero index gives in every row *)
(* the value and the null flag that the same access gives over the array   *)
(* materialised to one row per row of the block.                           *)
C22_ConstantEqualsBroadcast ==
    (call.fn = "arrayElement" /\ call.result = 4 /\ block[2].tag = "const"
         /\ block[2].value.value # 0) =>
        /\ error = NoError
        /\ \A r \in 1..Rows(block[1]) : ElemAt(block[4], r) = ElemAt(block[3], r)

----------------------------------------------------------------------------
(* FunctionArrayReduce::getReturnTypeAndPrerequisitesImpl.  An argument is *)
(* a column with its type; agg holds the members of the function object.   *)

TypeArray(nested) == [name |-> "Array", nested |-> nested]

TypeOf(name) == [name |-> name, nested |-> "none"]

Argument(column, type) == [column |-> column, type |-> type]

(* The member aggregate_function of a function object on which no type has *)
(* been resolved yet.                                                      *)
NullFunction == [name |-> "null", argument_types |-> <<>>, params |-> <<>>]

NewFunctionObject == [pc |-> "idle", aggregate_function |-> NullFunction]

(* A constant string that names an aggregate function, with its parameters *)
(* in parentheses if any: the text is held as its two parts.               *)
FunctionText(name, params) == [name |-> name, params |-> params]

(* getAggregateFunctionNameAndParametersArray *)
getAggregateFunctionNameAndParametersArray(text) == [aggregate_function_name |-> text.name, params_row |-> text.params]

(* AggregateFunctionFactory::instance().get, followed by setParameters and *)
(* setArguments.                                                           *)
FactoryGet(name, argument_types, params) == [name |-> name, argument_types |-> argument_types, params |-> params]

(* IAggregateFunction::getReturnType() *)
getReturnType(f) ==
    CASE f.name = "count" -> "UInt64"
      [] f.name = "sum" -> IF f.argument_types[1] = "Float64" THEN "Float64" ELSE "UInt64"
      [] f.name = "quantile" -> "Float64"
      [] OTHER -> f.argument_types[1]

ResolveOutcome(e, object, out_return_type) == [error |-> e, agg |-> object, out_return_type |-> out_return_type]

getReturnTypeAndPrerequisitesImpl(object, arguments) ==
    IF Len(arguments) < 2
    THEN ResolveOutcome("NUMBER_OF_ARGUMENTS_DOESNT_MATCH", object, "none")
    ELSE IF ~(arguments[1].column.tag = "const" /\ arguments[1].type = TypeOf("String"))
    THEN ResolveOutcome("ILLEGAL_TYPE_OF_ARGUMENT", object, "none")
    ELSE IF \E i \in 2..Len(arguments) : arguments[i].type.name # "Array"
    THEN ResolveOutcome("ILLEGAL_TYPE_OF_ARGUMENT", object, "none")
    ELSE LET argument_types == [i \in 1..(Len(arguments) - 1) |-> arguments[i + 1].type.nested]
             text == arguments[1].column.value
             parsed == getAggregateFunctionNameAndParametersArray(text)
         IN IF object.aggregate_function = NullFunction
            THEN IF text.name = ""
                 THEN ResolveOutcome("BAD_ARGUMENTS", object, "none")
                 ELSE LET f == FactoryGet(parsed.aggregate_function_name, argument_types,
                                          parsed.params_row)
                      IN ResolveOutcome(NoError, [object EXCEPT !.aggregate_function = f],
                                        getReturnType(f))
            ELSE ResolveOutcome(NoError, object, getReturnType(object.aggregate_function))

----------------------------------------------------------------------------
(* Specification of type resolution on one arrayReduce function object:    *)
(* block holds the arguments of the latest call, call.result the type it   *)
(* returned.                                                               *)

FunctionTexts ==
    {FunctionText(n, <<>>) : n \in {"", "sum", "count", "any"}}
    \cup {FunctionText("quantile", <<5>>)}

ElementTypes == {"UInt8", "Float64", "String"}

NameArguments ==
    {Argument(ColumnConst(0, t), TypeOf("String")) : t \in FunctionTexts}
    \cup {Argument(ColumnVector(<<>>), TypeOf("String"))}

ArrayArguments ==
    {Argument(ColumnArray(ColumnVector(<<>>), <<>>), TypeArray(t)) : t \in ElementTypes}
    \cup {Argument(ColumnVector(<<>>), TypeOf("UInt8"))}

ResolveArguments ==
    {<<n>> : n \in NameArguments} \cup {<<n, a>> : n \in NameArguments, a \in ArrayArguments}

InitResolve ==
    /\ block = <<>>
    /\ call = NoCall
    /\ error = NoError
    /\ agg = NewFunctionObject

ReduceResolve ==
    /\ \E arguments \in ResolveArguments :
         LET o == getReturnTypeAndPrerequisitesImpl(agg, arguments)
         IN /\ block' = arguments
            /\ error' = o.error
            /\ agg' = o.agg
            /\ call' = [fn |-> "arrayReduce.getReturnType", arguments |-> <<1, 2>>,
                        result |-> o.out_return_type]

NextResolve == ReduceResolve

SpecResolve == InitResolve /\ [][NextResolve]_vars

(* C23: a resolve call that succeeds returns the return type of the        *)
(* aggregate function its own arguments name, over its own argument types, *)
(* whatever was resolved before on the same object.                        *)
C23_ResolveIsStateless ==
    (call.fn = "arrayReduce.getReturnType" /\ error = NoError) =>
        call.result = getReturnType(FactoryGet(block[1].column.value.name,
                                               <<block[2].type.nested>>,
                                               block[1].column.value.params))

----------------------------------------------------------------------------
(* Specification of arrayElement over varying arrays of every element      *)
(* representation: block = <<A, index, result, unused>>.                   *)

ElementAccessKinds == {"vector", "string", "fixed", "generic"}

ElementKindArrays ==
    {AsKind(a, kind) : a \in NullableArrays(MaxRows, MaxElems), kind \in ElementAccessKinds}

InitElementKinds ==
    /\ \E a \in ElementKindArrays : \E ix \in IndexColumns(Rows(a)) :
         block = <<a, ix, EmptySlot, EmptySlot>>
    /\ call = NoCall
    /\ error = NoError
    /\ agg = NoAgg

NextElementKinds == ArrayElement

SpecElementKinds == InitElementKinds /\ [][NextElementKinds]_vars

(* The k-th value of a column, k counted from 1. *)
ItemAt(col, k) ==
    CASE col.tag = "string" -> SubSeq(col.chars, PrevOffset(col.offsets, k) + 1, col.offsets[k])
      [] col.tag = "fixed" -> SubSeq(col.chars, (k - 1) * col.n + 1, k * col.n)
      [] OTHER -> col.data[k]

(* The position, counted from 1, that index i selects in a row of len      *)
(* elements; 0 if it selects none.                                         *)
SelectedPosition(i, len) ==
    IF i > 0 /\ i <= len THEN i
    ELSE IF i < 0 /\ -i <= len THEN len + i + 1
    ELSE 0

(* T() of the column: the value a row that selects no element receives. *)
DefaultItem(col) ==
    CASE col.tag = "string" -> <<0>>
      [] col.tag = "fixed" -> [k \in 1..col.n |-> 0]
      [] OTHER -> 0

(* C24: over a nullable array of any element representation, with a        *)
(* constant or a per-row index, the value and the null flag of an output   *)
(* row are those of one and the same flat index of that row of the source, *)
(* or the row holds the default value and is flagged not null.             *)
C24_BuilderLockStep ==
    (call.fn = "arrayElement" /\ call.result = 3 /\ error = NoError
         /\ block[1].tag = "array" /\ isNullable(block[1].data)) =>
        \A r \in 1..Rows(block[1]) :
            \/ /\ ItemAt(block[3].nested, r) = DefaultItem(block[3].nested)
               /\ block[3].null_map[r] = 0
            \/ \E flat \in (PrevOffset(block[1].offsets, r) + 1)..block[1].offsets[r] :
                 /\ ItemAt(block[3].nested, r) = ItemAt(block[1].data.nested, flat)
                 /\ block[3].null_map[r] = block[1].data.null_map[flat]

----------------------------------------------------------------------------
(* C25: reversing a varying array of nullable numeric, fixed-string or     *)
(* string elements reads and writes inside its buffers only, and the null  *)
(* flag at position p of every output row is the input flag at position    *)
(* len - 1 - p of the same row.                                            *)
C25_ReverseCarriesBitmap ==
    (call.fn = "arrayReverse" /\ call.result = 2 /\ block[1].tag = "array"
         /\ isNullable(block[1].data)) =>
        /\ error = NoError
        /\ \A r \in 1..Rows(block[1]) : \A p \in 0..(RowLen(block[1], r) - 1) :
             block[2].data.null_map[PrevOffset(block[1].offsets, r) + p + 1]
                 = block[1].data.null_map[block[1].offsets[r] - p]

----------------------------------------------------------------------------
(* Row-scoped scratch state of arrayUniq and arrayEnumerateUniq.           *)

(* The argument col cut down to its row r alone. *)
OnlyRow(col, r) ==
    IF col.tag = "const" THEN ColumnConst(1, col.value)
    ELSE ColumnArray(ColumnFromElems(col.data, RowOf(col, r)), <<Len(RowOf(col, r))>>)

(* What a result column of either function holds for row r. *)
ResultOfRow(res, r) ==
    CASE res.tag = "const" -> res.value
      [] res.tag = "array" -> RowOf(res, r)
      [] OTHER -> res.data[r]

(* The function of the call applied to row r alone. *)
AloneResult(r) ==
    LET blk == [a \in 1..3 |-> IF a \in Range(call.arguments) THEN OnlyRow(block[a], r)
                               ELSE block[a]]
    IN IF call.fn = "arrayUniq" THEN ArrayUniqExecuteImpl(blk, call.arguments, 3)
       ELSE ArrayEnumerateUniqExecuteImpl(blk, call.arguments, 3)

(* C26: in every path of arrayUniq and arrayEnumerateUniq the result of a  *)
(* row is what the function gives for that row alone: nothing of the hash  *)
(* table or the null counter is carried over from the rows before.         *)
C26_RowScopedScratch ==
    (UniqDone("arrayUniq") \/ UniqDone("arrayEnumerateUniq")) =>
        \A r \in 1..Rows(block[1]) :
            /\ AloneResult(r).error = NoError
            /\ ResultOfRow(block[3], r) = ResultOfRow(AloneResult(r).block[3], 1)

(* C26 witness: a string array whose second row starts with a value of its *)
(* first row, ranked 1 again, and a zipped call whose second row repeats   *)
(* the first key of the first row.                                         *)
C26_Witness ==
    /\ UniqDone("arrayEnumerateUniq")
    /\ block[1].tag = "array" /\ InnerColumn(block[1]).tag = "string"
    /\ Rows(block[1]) >= 2
    /\ Len(RowOf(block[1], 1)) >= 1 /\ Len(RowOf(block[1], 2)) >= 1
    /\ SameAt(call.arguments, 1, 1, 1)
    /\ \A a \in Range(call.arguments) :
           SameItem(RowItems(block[a], 1)[1], RowItems(block[a], 2)[1])
    /\ RankAt(2, 1) = 1

----------------------------------------------------------------------------
(* arrayUniq against arrayEnumerateUniq on the same arguments.             *)

(* The call runs a single-argument path over a varying array of numbers or *)
(* strings, or the zipped path that packs numeric keys into 128 bits.      *)
SingleOrPackedPath ==
    \/ call.arguments = <<1>> /\ block[1].tag = "array"
    \/ /\ call.arguments = <<1, 2>>
       /\ \A a \in {1, 2} : InnerColumn(ZippedArgument(a)).tag = "vector"

(* The positions of row r that hold the same value as position p. *)
GroupOf(r, p) == {q \in 1..Len(RowOf(ZippedArgument(1), r)) : SameAt(call.arguments, r, p, q)}

(* C30: on the same arguments the number of positions of a row that        *)
(* arrayEnumerateUniq ranks 1 is the count arrayUniq gives the row, and    *)
(* the ranks of the m positions of a group are 1..m in position order.     *)
C30_CountMatchesRanks ==
    (UniqDone("arrayEnumerateUniq") /\ SingleOrPackedPath) =>
        LET uniq == ArrayUniqExecuteImpl(block, call.arguments, 3)
        IN /\ uniq.error = NoError
           /\ \A r \in 1..Rows(block[1]) :
                LET len == Len(RowOf(ZippedArgument(1), r))
                IN /\ Cardinality({p \in 1..len : RankAt(r, p) = 1}) = CountAt(uniq.block[3], r)
                   /\ \A p \in 1..len :
                        /\ {RankAt(r, q) : q \in GroupOf(r, p)} = 1..Cardinality(GroupOf(r, p))
                        /\ \A q \in GroupOf(r, p) : q < p => RankAt(r, q) < RankAt(r, p)

(* C30 witness: a row whose two positions form one group, ranked 1 and 2   *)
(* and counted once, through the packed zipped path.                       *)
C30_Witness ==
    /\ UniqDone("arrayEnumerateUniq") /\ SingleOrPackedPath
    /\ call.arguments = <<1, 2>>
    /\ \E r \in 1..Rows(block[1]) :
         /\ Len(RowOf(ZippedArgument(1), r)) = 2
         /\ GroupOf(r, 1) = {1, 2}
         /\ RankAt(r, 2) = 2
         /\ CountAt(ArrayUniqExecuteImpl(block, call.arguments, 3).block[3], r) = 1

----------------------------------------------------------------------------
(* The bitmap arrayElement builds, as the builder left it: an entry no     *)
(* update wrote is Uninit.                                                 *)
BuiltNullMap == ArrayElementExecuteImpl(block, <<1, 2>>, 4).block[4].null_map

(* C27: over a nullable array the builder is updated once per output row:  *)
(* the call never fails with LogicalError, and when it succeeds the bitmap *)
(* holds one written entry for every row of the batch, for a varying and   *)
(* for a constant array and for a batch of zero rows.                      *)
C27_OneBitmapEntryPerRow ==
    (ElementDone /\ call.result = 3 /\ ArrayIsNullable(block[1])) =>
        /\ error # "LOGICAL_ERROR"
        /\ error = NoError =>
             /\ Len(BuiltNullMap) = Rows(block[1])
             /\ \A r \in 1..Rows(block[1]) : BuiltNullMap[r] # Uninit

----------------------------------------------------------------------------
(* C28: arraySlice returns one row per row of the batch in every branch,   *)
(* a constant array sliced with an absent offset and an absent length      *)
(* included.                                                               *)
C28_SlicePreservesRowCount ==
    (call.fn = "arraySlice" /\ error = NoError) =>
        Rows(block[call.result]) = Rows(block[1])

----------------------------------------------------------------------------
(* The index column with every zero replaced by 1. *)
WithoutZeros(col) == ColumnVector([k \in 1..Len(col.data) |-> IF col.data[k] = 0 THEN 1 ELSE col.data[k]])

(* C29: with a per-row index column the call does not fail on an index of  *)
(* 0: such a row receives the default value, flagged not null when the     *)
(* array is nullable, and every other row receives what it receives when   *)
(* no index of the column is 0, for a varying and for a constant array.    *)
C29_PerRowZeroIndex ==
    (ElementDone /\ call.result = 3 /\ block[2].tag = "vector") =>
        /\ error = NoError
        /\ LET other == ArrayElementExecuteImpl([block EXCEPT ![2] = WithoutZeros(block[2])],
                                                <<1, 2>>, 4).block[4]
           IN \A r \in 1..Rows(block[1]) :
                IF block[2].data[r] = 0
                THEN ValueAt(block[3], r) = 0 /\ NullAt(block[3], r) = 0
                ELSE ElemAt(block[3], r) = ElemAt(other, r)

(* C29 witness: a nullable array of two rows, the first row indexed by 0   *)
(* and flagged not null, the second indexed by its NULL first element.     *)
C29_Witness ==
    /\ ElementDone /\ call.result = 3 /\ block[2].tag = "vector" /\ error = NoError
    /\ ArrayIsNullable(block[1])
    /\ Rows(block[1]) = 2
    /\ block[2].data = <<0, 1>>
    /\ RowLen(block[1], 1) >= 1
    /\ ElemAt(block[3], 1) = <<0, 0>>
    /\ ElemAt(block[3], 2) = <<1, 0>>

====
